---- MODULE Spec2Model ----
(***************************************************************************)
(* Model of the jewelry design generator: the Meshy API client             *)
(* (generators/meshy_api.py), the generation of one design and of a batch  *)
(* of designs (generators/meshy_generator.py), the design record           *)
(* (models/jewelry_design.py) and the configuration (utils/config.py).     *)
(*                                                                         *)
(* A Python Optional value is a sequence of length 0 (None) or 1.          *)
(* An exception is a record with a "type" field; the result of a call is   *)
(* [ok |-> TRUE, value |-> v] or [ok |-> FALSE, exc |-> e].                *)
(* Callbacks supplied by the caller are taken to return normally.          *)
(***************************************************************************)
EXTENDS Integers, Sequences, FiniteSets, TLC

\* ---------------------------------------------------------------- bounds
BatchSize == 2          \* largest batch_size a generate_batch call is given
MaxWorkers == 2         \* largest max_workers a generate_batch call is given
TimeoutSeconds == 7     \* the non-zero timeout a generate_design call may pass
MaxPolls == 4           \* fetches followed in one wait_for_task_completion call

\* ------------------------------------------------------ program constants
PollingInterval == 5    \* polling_interval passed by generate_design

Units == 1..BatchSize
Workers == 1..MaxWorkers

None == <<>>
Some(x) == <<x>>
Truthy(opt) == opt # None /\ opt[1] # 0

Statuses == {"PENDING", "IN_PROGRESS", "SUCCEEDED", "FAILED", "CANCELED"}
ProgressValues == {0, 37, 100}
Formats == {"glb", "fbx", "obj", "usdz"}

Returned(v) == [ok |-> TRUE, value |-> v]
Raised(e) == [ok |-> FALSE, exc |-> e]

\* ------------------------------------------------------------ exceptions
MeshyAPIError(message, status_code, response) ==
    [type |-> "MeshyAPIError", message |-> message,
     status_code |-> status_code, response |-> response]

AttributeError ==
    [type |-> "AttributeError",
     message |-> <<"'NoneType' object has no attribute 'status_code'">>]

OSError(what) == [type |-> "OSError", message |-> <<what>>]

RequestException(what) == [type |-> "RequestException", message |-> <<what>>]

JewelryGenerationError(e) ==
    [type |-> "JewelryGenerationError",
     message |-> <<"Failed to generate design: ">> \o e.message,
     cause |-> e]

\* The classes derived from Exception (all of the above); a BaseException
\* that is no Exception is caught by neither handler.
ExceptionTypes ==
    {"MeshyAPIError", "AttributeError", "OSError", "RequestException",
     "JewelryGenerationError"}

\* ------------------------------------------------- the remote HTTP service
\* What the service sends on SUCCEEDED: the output URLs of the job.
TaskPayload ==
    [model_urls |-> [f \in {"glb", "fbx", "obj", "mtl"} |-> <<"remote", 0, f>>],
     thumbnail_url |-> Some(<<"remote", 0, "thumbnail">>),
     texture_urls |-> << [base_color |-> <<"remote", 0, "texture_0">>,
                          normal |-> <<"remote", 0, "texture_0_normal">>] >>]

\* The task snapshots a GET of a task can carry.
Tasks ==
    [status : {"PENDING", "IN_PROGRESS", "SUCCEEDED"},
     progress : ProgressValues, task_error : {None}]
    \cup
    [status : {"FAILED", "CANCELED"},
     progress : ProgressValues, task_error : {None, Some("quota exceeded")}]

\* The snapshots the service sends while designs are generated: a running
\* job at two progress values, a finished one, a failed one with its error
\* message and a canceled one without.
Task(status, progress, task_error) ==
    [status |-> status, progress |-> progress, task_error |-> task_error]
ServiceTasks ==
    {Task("IN_PROGRESS", 37, None), Task("IN_PROGRESS", 100, None),
     Task("SUCCEEDED", 100, None),
     Task("FAILED", 37, Some("quota exceeded")),
     Task("CANCELED", 37, None)}

\* The outcome of one requests.post/get followed by raise_for_status():
\* a 2xx response with a JSON body, a non-2xx response (HTTPError, which
\* carries the response), or no response at all (ConnectionError, Timeout).
ErrorResponses ==
    [kind : {"http_error"}, status_code : {500}, json : BOOLEAN]
NoResponses ==
    [kind : {"no_response"}, why : {"ConnectionError", "Timeout"}]
PostOutcomes ==
    [kind : {"ok"}, result : {"", "task-id"}]
    \cup ErrorResponses \cup NoResponses
GetOutcomes(tasks) ==
    [kind : {"ok"}, task : tasks] \cup ErrorResponses \cup NoResponses

\* ------------------------------------------------------------- MeshyAPI
\* The except requests.RequestException handler shared by the three
\* operations: hasattr(e, "response") holds for every RequestException, so
\* e.response.status_code is evaluated, also when e.response is None.
TranslateRequestException(o, what) ==
    IF o.kind = "no_response"
    THEN AttributeError
    ELSE MeshyAPIError(<<what, "HTTPError">>, Some(o.status_code),
                       IF o.json THEN Some(<<"json", o.status_code>>)
                       ELSE Some(<<"raw", o.status_code>>))

CreateTask(o, what) ==
    IF o.kind = "ok"
    THEN IF o.result = ""
         THEN Raised(MeshyAPIError(<<"No task ID returned in response">>,
                                   None, Some(<<"json", o.result>>)))
         ELSE Returned(o.result)
    ELSE Raised(TranslateRequestException(o, what))

create_text_to_3d_preview(o) == CreateTask(o, "Error creating preview task: ")

create_text_to_3d_refine(o) == CreateTask(o, "Error creating refine task: ")

get_text_to_3d_task(o) ==
    IF o.kind = "ok"
    THEN Returned(o.task)
    ELSE Raised(TranslateRequestException(o, "Error getting task details: "))

\* Mutant of WaitIteration: last_progress is never updated, so every fetch
\* is reported.
WaitIterationNoDedup(task, last_progress, has_cb, timeout, elapsed) ==
    LET report == has_cb /\ task.progress # last_progress
        error_msg == IF task.task_error # None THEN task.task_error[1]
                     ELSE "Task failed"
    IN  [callback |-> IF report
                      THEN Some([progress |-> task.progress,
                                 status |-> task.status])
                      ELSE None,
         last_progress |-> last_progress,
         result |->
            IF task.status = "SUCCEEDED" THEN Some(Returned(task))
            ELSE IF task.status \in {"FAILED", "CANCELED"}
            THEN Some(Raised(MeshyAPIError(
                     <<"Task failed with status ", task.status, ": ",
                       error_msg>>, None, Some(task))))
            ELSE IF Truthy(timeout) /\ elapsed > timeout[1]
            THEN Some(Raised(MeshyAPIError(
                     <<"Task timed out after ", ToString(timeout[1]),
                       " seconds">>, None, Some(task))))
            ELSE None]

\* Mutant of WaitIteration: only a progress value above the last reported
\* one is reported.
WaitIterationMonotonic(task, last_progress, has_cb, timeout, elapsed) ==
    LET report == has_cb /\ task.progress > last_progress
        error_msg == IF task.task_error # None THEN task.task_error[1]
                     ELSE "Task failed"
    IN  [callback |-> IF report
                      THEN Some([progress |-> task.progress,
                                 status |-> task.status])
                      ELSE None,
         last_progress |-> IF report THEN task.progress ELSE last_progress,
         result |->
            IF task.status = "SUCCEEDED" THEN Some(Returned(task))
            ELSE IF task.status \in {"FAILED", "CANCELED"}
            THEN Some(Raised(MeshyAPIError(
                     <<"Task failed with status ", task.status, ": ",
                       error_msg>>, None, Some(task))))
            ELSE IF Truthy(timeout) /\ elapsed > timeout[1]
            THEN Some(Raised(MeshyAPIError(
                     <<"Task timed out after ", ToString(timeout[1]),
                       " seconds">>, None, Some(task))))
            ELSE None]

\* Mutant of WaitIteration: the loop returns the task on every terminal
\* status.
WaitIterationAnyTerminal(task, last_progress, has_cb, timeout, elapsed) ==
    LET report == has_cb /\ task.progress # last_progress
    IN  [callback |-> IF report
                      THEN Some([progress |-> task.progress,
                                 status |-> task.status])
                      ELSE None,
         last_progress |-> IF report THEN task.progress ELSE last_progress,
         result |->
            IF task.status \in {"SUCCEEDED", "FAILED", "CANCELED"}
            THEN Some(Returned(task))
            ELSE IF Truthy(timeout) /\ elapsed > timeout[1]
            THEN Some(Raised(MeshyAPIError(
                     <<"Task timed out after ", ToString(timeout[1]),
                       " seconds">>, None, Some(task))))
            ELSE None]

\* One iteration of the polling loop of wait_for_task_completion, after the
\* fetch returned `task`: the callback, the status test, the timeout test.
\* `elapsed` is time.time() - start_time at the timeout test.
WaitIteration(task, last_progress, has_cb, timeout, elapsed) ==
    LET report == has_cb /\ task.progress # last_progress
        error_msg == IF task.task_error # None THEN task.task_error[1]
                     ELSE "Task failed"
    IN  [callback |-> IF report
                      THEN Some([progress |-> task.progress,
                                 status |-> task.status])
                      ELSE None,
         last_progress |-> IF report THEN task.progress ELSE last_progress,
         result |->
            IF task.status = "SUCCEEDED" THEN Some(Returned(task))
            ELSE IF task.status \in {"FAILED", "CANCELED"}
            THEN Some(Raised(MeshyAPIError(
                     <<"Task failed with status ", task.status, ": ",
                       error_msg>>, None, Some(task))))
            ELSE IF Truthy(timeout) /\ elapsed > timeout[1]
            THEN Some(Raised(MeshyAPIError(
                     <<"Task timed out after ", ToString(timeout[1]), " seconds">>,
                     None, Some(task))))
            ELSE None]

\* The output URLs a task snapshot carries: those of a finished job.
Payload(task) ==
    IF task.status = "SUCCEEDED" THEN TaskPayload
    ELSE [model_urls |-> <<>>, thumbnail_url |-> None, texture_urls |-> <<>>]

\* download_3d_model: the files downloaded, or what download_file raised
\* (a requests exception or an OSError, passed on as it is).
download_3d_model(task, fmts, outcome) ==
    IF outcome = "ok"
    THEN Returned({f \in fmts : f \in DOMAIN Payload(task).model_urls})
    ELSE IF outcome = "http"
    THEN Raised(RequestException("download_file"))
    ELSE Raised(OSError("download_file"))

DownloadOutcomes == {"ok", "http", "io"}

\* ------------------------------------------------------------ the state
VARIABLES
    call,                 \* "generate_design" or "generate_batch"
    mock_mode,            \* MeshyJewelryGenerator.mock_mode
    wait_for_completion,  \* argument of generate_design
    progress_callback,    \* TRUE iff the caller supplied a progress callback
    timeout,              \* Optional timeout of generate_design
    formats,              \* the requested formats
    batch_size,           \* number of designs of the batch
    max_workers,          \* size of the ThreadPoolExecutor
    unit,                 \* per design: its generate_design call (see Unit)
    worker,               \* per pool thread: the design it runs, 0 when idle
    mainPc,               \* position of generate_batch
    completed_designs,    \* generate_batch's success list
    failed_designs,       \* generate_batch's failure list
    retval,               \* None, or how generate_batch ended
    waitCall,             \* a direct call of wait_for_task_completion
    libCall               \* a direct call into models/ or utils/ (see below)

argVars == <<call, mock_mode, wait_for_completion, progress_callback,
             timeout, formats, batch_size, max_workers>>
batchVars == <<mainPc, completed_designs, failed_designs, retval>>
vars == <<argVars, unit, worker, batchVars, waitCall, libCall>>

Timeouts == {None, Some(0), Some(TimeoutSeconds)}
DefaultFormats == {"glb", "fbx"}
FormatChoices == {DefaultFormats, {"obj", "usdz"}}

\* JewelryDesign(...): the fields generation reads or writes.
JewelryDesign(id, batch_id) ==
    [id |-> id, batch_id |-> batch_id, description |-> None,
     model_urls |-> <<>>, thumbnail_url |-> None, texture_urls |-> <<>>]

\* One design and the generate_design call that works on it:
\*   pc             position of the call
\*   design         the JewelryDesign
\*   result         None, or how the call ended (Returned / Raised)
\*   failure        None, or the step that raised and what it raised
\*   log            the steps taken, in order
\*   remoteOps      the MeshyAPI operations invoked
\*   polled         TRUE iff get_text_to_3d_task returned a task to the call
\*   last_progress, elapsed   locals of the running wait_for_task_completion
\*   refine_task    None, or the finished refine task
\*   lastCb         None, or the last invocation of the caller's callback
\*   completeCalls  invocations of the caller's callback with stage complete
\*   dir            TRUE iff the design's output directory was created
\*   metadata       None, or the metadata persisted
\*   waited         seconds the call slept in both its waits together
\*                  (followed, as the clock, only when a timeout is set)
Unit(id, pc0, batch_id) ==
    [pc |-> pc0, design |-> JewelryDesign(id, batch_id), result |-> None,
     failure |-> None, log |-> <<>>, remoteOps |-> {}, polled |-> FALSE,
     last_progress |-> -1,
     elapsed |-> 0, refine_task |-> None, lastCb |-> None,
     completeCalls |-> 0, dir |-> FALSE, metadata |-> None, waited |-> 0]

\* A call wait_for_task_completion(task_id, polling_interval, timeout,
\* progress_callback) and what it did so far:
\*   last_progress, elapsed   its locals (elapsed: time.time() - start_time)
\*   polls       the number of get_text_to_3d_task calls made
\*   fetched     the snapshots get_text_to_3d_task returned, in order
\*   reported    the invocations of progress_callback, in order
\*   result      None, or how the call ended
WaitCall(pc0, has_cb, tmo) ==
    [pc |-> pc0, has_cb |-> has_cb, timeout |-> tmo, last_progress |-> -1,
     elapsed |-> 0, polls |-> 0, fetched |-> <<>>, reported |-> <<>>,
     result |-> None]

\* No call into models/ or utils/ is followed.
NoCall == [pc |-> "none"]

\* A call of generate_design for one design without batch_id (the caller's,
\* or the one lines 99-120 build), or a call of generate_batch after it
\* built its batch_size designs with its batch id (lines 315-342).
Init ==
    /\ call \in {"generate_design", "generate_batch"}
    /\ mock_mode \in BOOLEAN
    /\ progress_callback \in BOOLEAN
    /\ IF call = "generate_design"
       THEN /\ formats \in FormatChoices
            /\ wait_for_completion \in BOOLEAN
            /\ timeout \in Timeouts
            /\ batch_size = 1
            /\ max_workers = 1
            /\ unit = [i \in Units |->
                  Unit(i, IF i = 1 THEN "mkdir" ELSE "absent", None)]
            /\ mainPc = "caller"
       ELSE /\ formats = DefaultFormats
            /\ wait_for_completion = TRUE
            /\ timeout = None
            /\ batch_size \in 1..BatchSize
            /\ max_workers \in 1..MaxWorkers
            /\ unit = [i \in Units |->
                  Unit(i, IF i <= batch_size THEN "created" ELSE "absent",
                       Some("batch_id"))]
            /\ mainPc = "submit"
    /\ worker = [w \in Workers |-> 0]
    /\ completed_designs = <<>>
    /\ failed_designs = <<>>
    /\ retval = None
    /\ waitCall = WaitCall("none", FALSE, None)
    /\ libCall = NoCall

\* -------------------------------------------------- generate_design, steps
\* Mutant of Wrap: a handler that catches MeshyAPIError only.
WrapMeshyOnly(e) ==
    IF e.type = "MeshyAPIError" THEN JewelryGenerationError(e) ELSE e

\* The handler of generate_design's try block: except (MeshyAPIError,
\* Exception) wraps whatever the block raised.
Wrap(e) ==
    IF e.type \in ExceptionTypes THEN JewelryGenerationError(e) ELSE e

\* The call ends; its locals are gone.
Ended(u, res, fail) ==
    [u EXCEPT !.pc = "done", !.result = Some(res), !.failure = fail,
              !.last_progress = -1, !.elapsed = 0, !.refine_task = None]

\* Mutant of RaiseInTry: a failed creation of the preview task is tried
\* once more.
RaiseInTryOrRetry(u, step, e) ==
    IF step = "create_preview" /\ Len(u.log) < 3
    THEN [u EXCEPT !.pc = "create_preview"]
    ELSE Ended(u, Raised(Wrap(e)), Some([step |-> step, exc |-> e]))

\* The call raises e at `step`: from inside the try block (lines 169-275),
\* where the handler wraps it, or from outside, where it escapes as it is.
RaiseInTry(u, step, e) ==
    Ended(u, Raised(Wrap(e)), Some([step |-> step, exc |-> e]))

RaiseOutside(u, step, e) ==
    Ended(u, Raised(e), Some([step |-> step, exc |-> e]))

\* The call returns the design.
ReturnDesign(u) == Ended(u, Returned(u.design.id), None)

\* Mutant of Callback: no invocation for a task that failed or was canceled.
CallbackNotOnFailure(u, progress, status, stage) ==
    IF progress_callback /\ status \notin {"FAILED", "CANCELED"}
    THEN [u EXCEPT !.lastCb = Some([progress |-> progress, status |-> status,
                                    stage |-> stage]),
                   !.completeCalls = IF stage = "complete" THEN @ + 1 ELSE @]
    ELSE u

\* The caller's progress callback, when there is one: progress_callback of
\* generate_design, or in a batch the lambda around
\* design_progress_callback, which passes the design on (lines 347-351).
Callback(u, progress, status, stage) ==
    IF progress_callback
    THEN [u EXCEPT !.lastCb = Some([progress |-> progress, status |-> status,
                                    stage |-> stage]),
                   !.completeCalls = IF stage = "complete" THEN @ + 1 ELSE @]
    ELSE u

Logged(u, steps) == [u EXCEPT !.log = @ \o steps]
Invoked(u, op) == [u EXCEPT !.remoteOps = @ \cup {op}]

\* Path(output_dir) / design.id, mkdir(parents, exist_ok): lines 128-129 in
\* mock mode, 166-167 otherwise; both outside the try block.
mkdir(u, ok) ==
    IF ok
    THEN [Logged(u, <<"mkdir">>) EXCEPT
             !.dir = TRUE,
             !.pc = IF mock_mode THEN "mock" ELSE "create_preview"]
    ELSE RaiseOutside(u, "mkdir", OSError("mkdir"))

\* Mutant of MockUrls: mock URLs for the default formats, whatever was
\* requested.
MockUrlsDefault(d, fmts) ==
    [d EXCEPT !.model_urls = [f \in DefaultFormats |-> <<"mock", d.id, f>>],
              !.thumbnail_url = Some(<<"mock", d.id, "thumbnail">>),
              !.texture_urls = <<>>]

MockUrls(d, fmts) ==
    [d EXCEPT !.model_urls = [f \in fmts |-> <<"mock", d.id, f>>],
              !.thumbnail_url = Some(<<"mock", d.id, "thumbnail">>),
              !.texture_urls =
                  << [base_color |-> <<"mock", d.id, "texture_0">>,
                      normal |-> <<"mock", d.id, "texture_0_normal">>] >>]

\* The rest of the mock path (lines 131-163): mock URLs,
\* save_design_metadata, callback.
mock_generate(u, ok) ==
    LET v == [u EXCEPT !.design = MockUrls(@, formats)] IN
    IF ok
    THEN ReturnDesign(
            Callback([Logged(v, <<"attach", "save">>) EXCEPT
                         !.metadata = Some(v.design)],
                     100, "MOCK_COMPLETED", "complete"))
    ELSE RaiseOutside(Logged(v, <<"attach">>), "save",
                      OSError("save_design_metadata"))

\* Mutant of create_preview: the wait starts whatever wait_for_completion.
create_preview_and_wait(u, o) ==
    LET r == create_text_to_3d_preview(o)
        v == Invoked(Logged(u, <<"create_preview">>),
                     "create_text_to_3d_preview")
    IN  IF ~r.ok THEN RaiseInTry(v, "create_preview", r.exc)
        ELSE [v EXCEPT !.pc = "wait_preview", !.last_progress = -1,
                       !.elapsed = 0]

\* Prompt construction and create_text_to_3d_preview (lines 171-185); with
\* wait_for_completion false the design is returned with the task id.
create_preview(u, o) ==
    LET r == create_text_to_3d_preview(o)
        v == Invoked(Logged(u, <<"create_preview">>),
                     "create_text_to_3d_preview")
    IN  IF ~r.ok THEN RaiseInTry(v, "create_preview", r.exc)
        ELSE IF wait_for_completion
        THEN [v EXCEPT !.pc = "wait_preview", !.last_progress = -1,
                       !.elapsed = 0]
        ELSE ReturnDesign([v EXCEPT !.design.description =
                              Some(<<"Preview task ID: ", r.value>>)])

\* Mutant of Overall: half of the remote progress, rounded half up.
OverallHalfUp(stage, progress) ==
    IF stage = "preview" THEN (progress + 1) \div 2
    ELSE 50 + (progress + 1) \div 2

\* preview_progress_cb and refine_progress_cb: the overall progress.
Overall(stage, progress) ==
    IF stage = "preview" THEN progress \div 2 ELSE 50 + progress \div 2

\* One iteration of wait_for_task_completion on the preview or refine task
\* (lines 197-202, 232-237): fetch, callback, status test, timeout test,
\* sleep.
poll(u, stage, o) ==
    LET f == get_text_to_3d_task(o)
        v == Invoked(u, "get_text_to_3d_task")
    IN  IF ~f.ok THEN RaiseInTry(v, "wait_" \o stage, f.exc)
        ELSE
          LET w == WaitIteration(f.value, u.last_progress, TRUE, timeout,
                                 u.elapsed)
              x == IF w.callback # None
                   THEN Callback(v, Overall(stage, w.callback[1].progress),
                                 w.callback[1].status, stage)
                   ELSE v
              y == [x EXCEPT !.last_progress = w.last_progress,
                             !.polled = TRUE]
          IN  IF w.result = None
              THEN \* time.sleep(polling_interval); the clock is read only
                   \* when a timeout is set
                   [y EXCEPT
                       !.elapsed =
                           IF Truthy(timeout) THEN @ + PollingInterval ELSE @,
                       !.waited =
                           IF Truthy(timeout) THEN @ + PollingInterval ELSE @]
              ELSE IF ~w.result[1].ok
              THEN RaiseInTry(y, "wait_" \o stage, w.result[1].exc)
              ELSE [Logged(y, <<stage \o "_" \o w.result[1].value.status>>)
                    EXCEPT
                       !.pc = IF stage = "preview" THEN "create_refine"
                              ELSE "download",
                       !.refine_task = IF stage = "refine"
                                       THEN Some(w.result[1].value) ELSE @]

\* Mutant of create_refine: the second wait goes on with the clock of the
\* first.
create_refine_keep_clock(u, o) ==
    LET r == create_text_to_3d_refine(o)
        v == Invoked(Logged(u, <<"create_refine">>),
                     "create_text_to_3d_refine")
    IN  IF ~r.ok THEN RaiseInTry(v, "create_refine", r.exc)
        ELSE [v EXCEPT !.pc = "wait_refine", !.last_progress = -1]

\* create_text_to_3d_refine (lines 206-220); the second wait starts.
create_refine(u, o) ==
    LET r == create_text_to_3d_refine(o)
        v == Invoked(Logged(u, <<"create_refine">>),
                     "create_text_to_3d_refine")
    IN  IF ~r.ok THEN RaiseInTry(v, "create_refine", r.exc)
        ELSE [v EXCEPT !.pc = "wait_refine", !.last_progress = -1,
                       !.elapsed = 0]

\* download_3d_model (lines 240-247).
download(u, outcome) ==
    LET r == download_3d_model(u.refine_task[1], formats, outcome)
        v == Invoked(Logged(u, <<"download">>), "download_3d_model")
    IN  IF ~r.ok THEN RaiseInTry(v, "download", r.exc)
        ELSE [v EXCEPT !.pc = "persist"]

\* Mutant of Attach: the asset fields are set on a fresh record.
AttachToFresh(d, task) ==
    [JewelryDesign(d.id, None) EXCEPT
        !.model_urls = Payload(task).model_urls,
        !.texture_urls = Payload(task).texture_urls,
        !.thumbnail_url = Payload(task).thumbnail_url]

Attach(d, task) ==
    [d EXCEPT !.model_urls = Payload(task).model_urls,
              !.texture_urls = Payload(task).texture_urls,
              !.thumbnail_url = Payload(task).thumbnail_url]

\* Mutant of persist: the asset fields are attached once the metadata is
\* saved.
persist_attach_last(u, ok) ==
    LET v == [u EXCEPT !.design = Attach(@, u.refine_task[1])] IN
    IF ok
    THEN ReturnDesign(
            Callback([Logged(v, <<"attach", "save">>) EXCEPT
                         !.metadata = Some(v.design)],
                     100, "SUCCEEDED", "complete"))
    ELSE RaiseInTry(u, "save", OSError("save_design_metadata"))

\* Lines 249-265: attach the asset fields, save_design_metadata, callback.
persist(u, ok) ==
    LET v == [u EXCEPT !.design = Attach(@, u.refine_task[1])] IN
    IF ok
    THEN ReturnDesign(
            Callback([Logged(v, <<"attach", "save">>) EXCEPT
                         !.metadata = Some(v.design)],
                     100, "SUCCEEDED", "complete"))
    ELSE RaiseInTry(Logged(v, <<"attach">>), "save",
                    OSError("save_design_metadata"))

\* The pool thread that ran a design is idle again when its call ended:
\* it takes no other design before.
Release(i) == [w \in Workers |-> IF worker[w] = i THEN 0 ELSE worker[w]]

\* Mutant of Update: a design that fails cancels the designs still queued.
UpdateCancelling(i, u) ==
    /\ unit' = [j \in Units |->
          IF j = i THEN u
          ELSE IF u.failure # None /\ unit[j].pc = "queued"
          THEN [unit[j] EXCEPT !.pc = "done",
                   !.result = Some(Raised([type |-> "CancelledError",
                                           message |-> <<>>]))]
          ELSE unit[j]]
    /\ worker' = IF u.pc = "done" THEN Release(i) ELSE worker
    /\ UNCHANGED <<waitCall, libCall, argVars, batchVars>>

\* Design i's call takes a step to u.
Update(i, u) ==
    /\ unit' = [unit EXCEPT ![i] = u]
    /\ worker' = IF u.pc = "done" THEN Release(i) ELSE worker
    /\ UNCHANGED <<waitCall, libCall, argVars, batchVars>>

Mkdir(i) ==
    /\ unit[i].pc = "mkdir"
    /\ \E ok \in BOOLEAN : Update(i, mkdir(unit[i], ok))

MockGenerate(i) ==
    /\ unit[i].pc = "mock"
    /\ \E ok \in BOOLEAN : Update(i, mock_generate(unit[i], ok))

CreatePreview(i) ==
    /\ unit[i].pc = "create_preview"
    /\ \E o \in PostOutcomes : Update(i, create_preview(unit[i], o))

PollPreview(i) ==
    /\ unit[i].pc = "wait_preview"
    /\ \E o \in GetOutcomes(ServiceTasks) : Update(i, poll(unit[i], "preview", o))

CreateRefine(i) ==
    /\ unit[i].pc = "create_refine"
    /\ \E o \in PostOutcomes : Update(i, create_refine(unit[i], o))

PollRefine(i) ==
    /\ unit[i].pc = "wait_refine"
    /\ \E o \in GetOutcomes(ServiceTasks) : Update(i, poll(unit[i], "refine", o))

Download(i) ==
    /\ unit[i].pc = "download"
    /\ \E outcome \in DownloadOutcomes : Update(i, download(unit[i], outcome))

Persist(i) ==
    /\ unit[i].pc = "persist"
    /\ \E ok \in BOOLEAN : Update(i, persist(unit[i], ok))

\* The designs of the call.
Batch == 1..batch_size

\* --------------------------------------------------------- generate_batch
Finished(i) == unit[i].result # None

\* executor.submit(self.generate_design, design=design, ...), in the order
\* of the designs list (lines 359-370).
Submit(i) ==
    /\ mainPc = "submit"
    /\ unit[i].pc = "created"
    /\ \A j \in 1..(i - 1) : unit[j].pc # "created"
    /\ unit' = [unit EXCEPT ![i].pc = "queued"]
    /\ mainPc' = IF i = batch_size THEN "collect" ELSE "submit"
    /\ UNCHANGED <<waitCall, libCall, argVars, worker, completed_designs, failed_designs,
                   retval>>

\* Mutant of Take: a work item is started whether or not a thread is idle.
TakeBusy(w, i) ==
    /\ w <= max_workers
    /\ unit[i].pc = "queued"
    /\ \A j \in 1..(i - 1) : unit[j].pc # "queued"
    /\ worker' = [worker EXCEPT ![w] = i]
    /\ unit' = [unit EXCEPT ![i].pc = "mkdir"]
    /\ UNCHANGED <<waitCall, libCall, argVars, batchVars>>

\* An idle thread of the pool takes the oldest queued work item and starts
\* its generate_design (of several idle threads, the first: they are
\* interchangeable).
Take(w, i) ==
    /\ w <= max_workers
    /\ worker[w] = 0
    /\ \A v \in 1..(w - 1) : worker[v] # 0
    /\ unit[i].pc = "queued"
    /\ \A j \in 1..(i - 1) : unit[j].pc # "queued"
    /\ worker' = [worker EXCEPT ![w] = i]
    /\ unit' = [unit EXCEPT ![i].pc = "mkdir"]
    /\ UNCHANGED <<waitCall, libCall, argVars, batchVars>>

InList(i, list) == \E k \in 1..Len(list) : list[k] = i
Collected(i) == InList(i, completed_designs) \/ InList(i, failed_designs)

\* Mutant of Collect: no except clause around future.result().
CollectNoExcept(i) ==
    /\ mainPc = "collect"
    /\ Finished(i)
    /\ ~Collected(i)
    /\ IF unit[i].result[1].ok
       THEN /\ completed_designs' =
                   Append(completed_designs, unit[i].result[1].value)
            /\ UNCHANGED <<failed_designs, mainPc, retval>>
       ELSE /\ mainPc' = "done"
            /\ retval' = Some(Raised(unit[i].result[1].exc))
            /\ UNCHANGED <<completed_designs, failed_designs>>
    /\ UNCHANGED <<waitCall, libCall, argVars, unit, worker>>

\* One round of the as_completed loop (lines 373-381): future.result()
\* returns the design or raises what generate_design raised; except
\* Exception moves the design to the failure list.
Collect(i) ==
    /\ mainPc = "collect"
    /\ Finished(i)
    /\ ~Collected(i)
    /\ IF unit[i].result[1].ok
       THEN /\ completed_designs' =
                   Append(completed_designs, unit[i].result[1].value)
            /\ UNCHANGED <<failed_designs, mainPc, retval>>
       ELSE IF unit[i].result[1].exc.type \in ExceptionTypes
       THEN /\ failed_designs' = Append(failed_designs, i)
            /\ UNCHANGED <<completed_designs, mainPc, retval>>
       ELSE /\ mainPc' = "done"
            /\ retval' = Some(Raised(unit[i].result[1].exc))
            /\ UNCHANGED <<completed_designs, failed_designs>>
    /\ UNCHANGED <<waitCall, libCall, argVars, unit, worker>>

\* Mutant of ReturnBatch: the list is returned as soon as one future was
\* collected.
ReturnBatchEarly ==
    /\ mainPc = "collect"
    /\ \E i \in 1..batch_size : Collected(i)
    /\ mainPc' = "done"
    /\ retval' = Some(Returned(completed_designs))
    /\ UNCHANGED <<waitCall, libCall, argVars, unit, worker, completed_designs, failed_designs>>

\* as_completed is exhausted, the executor is shut down (all threads have
\* ended), and completed_designs is returned (lines 383-391).
ReturnBatch ==
    /\ mainPc = "collect"
    /\ \A i \in 1..batch_size : Collected(i)
    /\ mainPc' = "done"
    /\ retval' = Some(Returned(completed_designs))
    /\ UNCHANGED <<waitCall, libCall, argVars, unit, worker, completed_designs, failed_designs>>

Step(i) ==
    \/ Mkdir(i)
    \/ MockGenerate(i)
    \/ CreatePreview(i)
    \/ PollPreview(i)
    \/ CreateRefine(i)
    \/ PollRefine(i)
    \/ Download(i)
    \/ Persist(i)

Next ==
    \/ \E i \in Units : Step(i)
    \/ \E i \in Units : Submit(i)
    \/ \E w \in Workers, i \in Units : Take(w, i)
    \/ \E i \in Units : Collect(i)
    \/ ReturnBatch

Spec == Init /\ [][Next]_vars

\* Every thread keeps running: the caller's, the pool's and each design's.
Fairness ==
    /\ \A i \in Units : WF_vars(Step(i))
    /\ WF_vars(\E i \in Units : Submit(i))
    /\ WF_vars(\E w \in Workers, i \in Units : Take(w, i))
    /\ WF_vars(\E i \in Units : Collect(i))
    /\ WF_vars(ReturnBatch)

FairSpec == Spec /\ Fairness

\* ----------------------------------- wait_for_task_completion, on its own
AwaitInit ==
    /\ call = "wait_for_task_completion"
    /\ mock_mode = FALSE
    /\ wait_for_completion = TRUE
    /\ progress_callback = FALSE
    /\ timeout = None
    /\ formats = DefaultFormats
    /\ batch_size = 0
    /\ max_workers = 1
    /\ unit = [i \in Units |-> Unit(i, "absent", None)]
    /\ worker = [w \in Workers |-> 0]
    /\ mainPc = "caller"
    /\ completed_designs = <<>>
    /\ failed_designs = <<>>
    /\ retval = None
    /\ \E has_cb \in BOOLEAN, tmo \in Timeouts :
          waitCall = WaitCall("polling", has_cb, tmo)
    /\ libCall = NoCall

\* One iteration of the loop (lines 265-296): the fetch, which may raise,
\* then callback, status test, timeout test and sleep.
wait_for_task_completion(c, o) ==
    LET f == get_text_to_3d_task(o) IN
    IF ~f.ok
    THEN [c EXCEPT !.pc = "done", !.result = Some(f), !.polls = @ + 1]
    ELSE
      LET w == WaitIteration(f.value, c.last_progress, c.has_cb, c.timeout,
                             c.elapsed)
          d == [c EXCEPT !.polls = @ + 1,
                         !.fetched = Append(@, f.value),
                         !.reported = @ \o w.callback,
                         !.last_progress = w.last_progress]
      IN  IF w.result = None
          THEN [d EXCEPT !.elapsed =
                   IF Truthy(c.timeout) THEN @ + PollingInterval ELSE @]
          ELSE [d EXCEPT !.pc = "done", !.result = w.result]

AwaitPoll ==
    /\ waitCall.pc = "polling"
    /\ waitCall.polls < MaxPolls
    /\ \E o \in GetOutcomes(Tasks) :
          waitCall' = wait_for_task_completion(waitCall, o)
    /\ UNCHANGED <<libCall, argVars, unit, worker, batchVars>>

AwaitNext == AwaitPoll

AwaitSpec == AwaitInit /\ [][AwaitNext]_vars

\* ------------------------------------------- models/jewelry_design.py
\* A member of a str-mixin Enum; str() of it is its value, and the class
\* called with a value gives the member back.
Member(enum, value) == [enum |-> enum, value |-> value]

Material ==
    {Member("Material", v) :
        v \in {"gold", "silver", "stainless_steel", "gold_plated",
               "silver_plated", "rose_gold", "white_gold", "platinum",
               "brass"}}

JewelryType ==
    {Member("JewelryType", v) :
        v \in {"chain", "ring", "bracelet", "necklace", "earring",
               "pendant"}}

ChainStyle ==
    {Member("ChainStyle", v) :
        v \in {"cuban", "figaro", "rope", "cable", "snake", "box",
               "herringbone", "wheat", "ball"}}

CHAIN == Member("JewelryType", "chain")
CUBAN == Member("ChainStyle", "cuban")

\* A text is the sequence of its words; "" is the empty sequence.
\* str.title() and str.lower(), word by word, on the words that occur.
TitleWord(w) ==
    CASE w = "gold" -> "Gold"
      [] w = "silver" -> "Silver"
      [] w = "stainless_steel" -> "Stainless_Steel"
      [] w = "gold_plated" -> "Gold_Plated"
      [] w = "silver_plated" -> "Silver_Plated"
      [] w = "rose_gold" -> "Rose_Gold"
      [] w = "white_gold" -> "White_Gold"
      [] w = "platinum" -> "Platinum"
      [] w = "brass" -> "Brass"
      [] w = "ring" -> "Ring"
      [] w = "pendant" -> "Pendant"
      [] w = "earring" -> "Earring"
      [] w = "necklace" -> "Necklace"
      [] w = "bracelet" -> "Bracelet"
      [] w = "chain" -> "Chain"
      [] w = "cuban" -> "Cuban"
      [] w = "figaro" -> "Figaro"
      [] w = "rope" -> "Rope"
      [] w = "cable" -> "Cable"
      [] w = "snake" -> "Snake"
      [] w = "box" -> "Box"
      [] w = "herringbone" -> "Herringbone"
      [] w = "wheat" -> "Wheat"
      [] w = "ball" -> "Ball"
      [] OTHER -> w
title(text) == [k \in DOMAIN text |-> TitleWord(text[k])]

LowerWord(w) == IF w = "Professional" THEN "professional" ELSE w

lower(text) == [k \in DOMAIN text |-> LowerWord(text[k])]

\* datetime values: a time to the second and its microseconds.
Microseconds == {0, 250000}
Datetimes ==
    [second : {"2025-01-01T12:00:00"}, microsecond : Microseconds]

\* Mutant of fromisoformat: the fraction of a second is dropped.
fromisoformat_seconds(text) == [second |-> text[1], microsecond |-> 0]

\* datetime.isoformat() leaves the fraction out when microsecond is 0;
\* datetime.fromisoformat() reads both forms.
isoformat(dt) ==
    IF dt.microsecond = 0 THEN <<dt.second>>
    ELSE <<dt.second, ".", ToString(dt.microsecond)>>

fromisoformat(text) ==
    [second |-> text[1],
     microsecond |-> IF Len(text) = 1 THEN 0
                     ELSE CHOOSE m \in Microseconds : ToString(m) = text[3]]

\* The arguments a JewelryDesign is constructed with in this model; the
\* other fields take their defaults (id: one uuid).
DesignArgs ==
    [name : {<<>>, <<"My", "Design">>},
     jewelry_type : JewelryType,
     material : Material,
     chain_style : {None} \cup {Some(c) : c \in ChainStyle},
     created_at : Datetimes,
     generated : BOOLEAN]

\* Mutant of post_init: the default style for every chain-like type.
post_init_chainlike(d) ==
    IF d.jewelry_type.value \in {"chain", "bracelet", "necklace"}
       /\ d.chain_style = None
    THEN [d EXCEPT !.chain_style = Some(CUBAN)]
    ELSE d

\* JewelryDesign.__post_init__.
post_init(d) ==
    IF d.jewelry_type = CHAIN /\ d.chain_style = None
    THEN [d EXCEPT !.chain_style = Some(CUBAN)]
    ELSE d

\* The dataclass's fields as its generated __init__ sets them.
Fields(a) ==
    [id |-> "uuid-1", name |-> a.name, description |-> <<>>,
     jewelry_type |-> a.jewelry_type, material |-> a.material,
     chain_style |-> a.chain_style, dimensions |-> <<>>,
     created_at |-> a.created_at, batch_id |-> None, tags |-> <<>>,
     model_urls |-> IF a.generated THEN TaskPayload.model_urls ELSE <<>>,
     thumbnail_url |-> IF a.generated THEN TaskPayload.thumbnail_url
                       ELSE None,
     texture_urls |-> IF a.generated THEN TaskPayload.texture_urls
                      ELSE <<>>,
     weight |-> None, material_cost |-> None,
     manufacturing_notes |-> <<>>]

\* JewelryDesign(**a): __init__, then __post_init__.
NewJewelryDesign(a) == post_init(Fields(a))

display_name(d) ==
    IF d.name # <<>> THEN d.name
    ELSE LET style == IF d.chain_style # None
                      THEN <<d.chain_style[1].value>> ELSE <<>>
         IN  title(style \o <<d.material.value, d.jewelry_type.value>>)

to_dict(d) ==
    [id |-> d.id,
     name |-> IF d.name # <<>> THEN d.name ELSE display_name(d),
     description |-> d.description,
     jewelry_type |-> d.jewelry_type.value,
     material |-> d.material.value,
     chain_style |-> IF d.chain_style # None
                     THEN Some(d.chain_style[1].value) ELSE None,
     dimensions |-> d.dimensions,
     created_at |-> isoformat(d.created_at),
     batch_id |-> d.batch_id, tags |-> d.tags,
     model_urls |-> d.model_urls, thumbnail_url |-> d.thumbnail_url,
     texture_urls |-> d.texture_urls, weight |-> d.weight,
     material_cost |-> d.material_cost,
     manufacturing_notes |-> d.manufacturing_notes]

\* from_dict on a dictionary whose enum and date fields are strings, as
\* to_dict writes them: the strings are converted, then cls(**data).
from_dict(data) ==
    post_init(
        [data EXCEPT
            !.jewelry_type = Member("JewelryType", @),
            !.material = Member("Material", @),
            !.chain_style = IF @ # None
                            THEN Some(Member("ChainStyle", @[1])) ELSE None,
            !.created_at = fromisoformat(@)])

\* technical_specs of get_prompt, per jewelry type (lines 176-207).
technical_specs(jewelry_type) ==
    CASE jewelry_type.value = "ring" ->
        <<",", "precisely", "crafted", "round", "band", "with",
          "comfortable", "beveled", "inner", "edges", ",", "proper",
          "sizing", "proportions">>
      [] jewelry_type.value = "pendant" ->
        <<",", "with", "securely", "attached", "bail", "for", "chain",
          "threading", ",", "balanced", "weight", "distribution",
          "for", "proper", "hanging">>
      [] jewelry_type.value = "earring" ->
        <<",", "with", "secure", "ear", "wire", "mechanism", ",",
          "properly", "balanced", "for", "comfortable", "wear">>
      [] jewelry_type.value = "necklace" ->
        <<",", "featuring", "secure", "lobster", "clasp", "with",
          "jump", "ring", ",", "properly", "graduated", "links",
          "for", "comfortable", "draping">>
      [] jewelry_type.value = "bracelet" ->
        <<",", "with", "secure", "box", "clasp", "and", "safety",
          "chain", ",", "ergonomically", "designed", "for", "wrist",
          "comfort">>
      [] jewelry_type.value = "chain" ->
        <<",", "uniform", "link", "pattern", "throughout", ",",
          "featuring", "secure", "spring", "ring", "clasp">>
      [] OTHER -> <<>>

\* _get_material_properties (lines 240-293).
get_material_properties(material) ==
    CASE material.value = "gold" ->
        <<"warm", "yellow", "gold", "with", "accurate", "metallic",
          "luster", "and", "reflective", "properties">>
      [] material.value = "silver" ->
        <<"bright", "sterling", "silver", "with", "proper", "white",
          "metal", "sheen", "and", "subtle", "reflection">>
      [] material.value = "stainless_steel" ->
        <<"durable", "stainless", "steel", "with", "cool", "gray",
          "tone", "and", "subtle", "brushed", "texture">>
      [] material.value = "gold_plated" ->
        <<"precision", "gold-plated", "surface", "with", "consistent",
          "coverage", "and", "warm", "golden", "hue">>
      [] material.value = "silver_plated" ->
        <<"precisely", "silver-plated", "with", "consistent",
          "layering", "and", "bright", "white", "metal", "appearance">>
      [] material.value = "rose_gold" ->
        <<"warm", "rose", "gold", "with", "distinctive", "pinkish",
          "hue", "and", "refined", "metallic", "shine">>
      [] material.value = "white_gold" ->
        <<"bright", "white", "gold", "with", "rhodium-plated",
          "finish", "for", "brilliant", "white", "appearance">>
      [] material.value = "platinum" ->
        <<"premium", "platinum", "with", "distinctive", "weight",
          "and", "cool", "white-gray", "metallic", "appearance">>
      [] material.value = "brass" ->
        <<"polished", "brass", "with", "warm", "golden-yellow",
          "tone", "and", "subtle", "antiqued", "detailing">>
      [] OTHER ->
        <<"with", "accurate", "metallic", "appearance", "and",
          "proper", "reflective", "properties">>

photography_context ==
    <<"Professional", "jewelry", "studio", "photography", "of">>

craftsmanship ==
    <<"professionally", "hand-polished", "to", "a", "mirror",
      "finish", ",", "showcasing", "refined", "craftsmanship", "with",
      "attention", "to", "detail">>

presentation ==
    <<"displayed", "on", "neutral", "background", "with", "studio",
      "lighting", "highlighting", "fine", "details", ",", "proper",
      "depth", "of", "field", ",", "realistic", "reflections">>

technical_requirements ==
    <<"no", "floating", "disconnected", "elements", ",", "all",
      "components", "properly", "attached", ",", "physically",
      "accurate", "for", "manufacturing">>
\* get_prompt (lines 151-239).
get_prompt(d) ==
    LET base_description ==
            <<"a", "high-quality", d.material.value, d.jewelry_type.value>>
        chain_details ==
            IF d.chain_style # None
               /\ d.jewelry_type.value \in {"chain", "necklace", "bracelet"}
            THEN <<"with", "properly", "connected",
                   d.chain_style[1].value, "style", "links">>
            ELSE <<>>
    IN  photography_context \o base_description \o chain_details
        \o technical_specs(d.jewelry_type) \o <<",">>
        \o craftsmanship \o <<",">>
        \o get_material_properties(d.material) \o <<",">>
        \o presentation \o <<",">> \o technical_requirements

\* A design is constructed; then either it is written to a dictionary, read
\* back and written again, or its prompt is computed.
RecordCall(a) ==
    [pc |-> "new", args |-> a, design |-> None, data |-> None,
     restored |-> None, data2 |-> None, prompt |-> None]

DesignInit ==
    /\ call = "JewelryDesign"
    /\ mock_mode = FALSE
    /\ wait_for_completion = TRUE
    /\ progress_callback = FALSE
    /\ timeout = None
    /\ formats = DefaultFormats
    /\ batch_size = 0
    /\ max_workers = 1
    /\ unit = [i \in Units |-> Unit(i, "absent", None)]
    /\ worker = [w \in Workers |-> 0]
    /\ mainPc = "caller"
    /\ completed_designs = <<>>
    /\ failed_designs = <<>>
    /\ retval = None
    /\ waitCall = WaitCall("none", FALSE, None)
    /\ \E a \in DesignArgs : libCall = RecordCall(a)

DesignFrame == UNCHANGED <<argVars, unit, worker, batchVars, waitCall>>

Construct ==
    /\ libCall.pc = "new"
    /\ libCall' = [libCall EXCEPT
                      !.pc = "constructed",
                      !.design = Some(NewJewelryDesign(libCall.args))]
    /\ DesignFrame

ToDict ==
    /\ libCall.pc = "constructed"
    /\ libCall' = [libCall EXCEPT
                      !.pc = "dict",
                      !.data = Some(to_dict(libCall.design[1]))]
    /\ DesignFrame

FromDict ==
    /\ libCall.pc = "dict"
    /\ libCall' = [libCall EXCEPT
                      !.pc = "restored",
                      !.restored = Some(from_dict(libCall.data[1]))]
    /\ DesignFrame

ToDictAgain ==
    /\ libCall.pc = "restored"
    /\ libCall' = [libCall EXCEPT
                      !.pc = "dict2",
                      !.data2 = Some(to_dict(libCall.restored[1]))]
    /\ DesignFrame

GetPrompt ==
    /\ libCall.pc = "constructed"
    /\ libCall' = [libCall EXCEPT
                      !.pc = "prompted",
                      !.prompt = Some(get_prompt(libCall.design[1]))]
    /\ DesignFrame

DesignNext ==
    \/ Construct
    \/ ToDict
    \/ FromDict
    \/ ToDictAgain
    \/ GetPrompt

DesignSpec == DesignInit /\ [][DesignNext]_vars

\* ---------------------------------------------------- utils/config.py
\* One configuration key is followed, "meshy_api_key" (MESHY_API_KEY in the
\* environment).  A file is None when it does not exist, else Some(v) with
\* v the Optional value it gives the key.  Each source has its own value.
\* `inherited` is os.environ's value for the key when load_config is called,
\* `environ` its value now.
ConfigFiles(value) == {None, Some(None), Some(Some(value))}

ConfigCall(environ, env_local, env_file, config_json) ==
    [pc |-> "load_dotenv", inherited |-> environ, environ |-> environ,
     env_local |-> env_local,
     env_file |-> env_file, config_json |-> config_json, config |-> None]

\* load_dotenv(dotenv_path), override False: a variable the file sets is
\* added to os.environ unless os.environ already has it.
load_dotenv(environ, file) ==
    IF environ = None THEN file[1] ELSE environ

\* os.getenv(key, default).
getenv(environ, default) ==
    IF environ # None THEN environ[1] ELSE default

\* dict.update on the key: the value of the file, when it has one, replaces
\* the value held.
update(value, file_value) ==
    IF file_value # None THEN file_value[1] ELSE value

ConfigInit ==
    /\ call = "load_config"
    /\ mock_mode = FALSE
    /\ wait_for_completion = TRUE
    /\ progress_callback = FALSE
    /\ timeout = None
    /\ formats = DefaultFormats
    /\ batch_size = 0
    /\ max_workers = 1
    /\ unit = [i \in Units |-> Unit(i, "absent", None)]
    /\ worker = [w \in Workers |-> 0]
    /\ mainPc = "caller"
    /\ completed_designs = <<>>
    /\ failed_designs = <<>>
    /\ retval = None
    /\ waitCall = WaitCall("none", FALSE, None)
    /\ \E environ \in {None, Some("process-key")},
          env_local \in ConfigFiles("local-key"),
          env_file \in ConfigFiles("env-key"),
          config_json \in ConfigFiles("file-key") :
          libCall = ConfigCall(environ, env_local, env_file, config_json)

ConfigFrame == UNCHANGED <<argVars, unit, worker, batchVars, waitCall>>

\* Lines 24-30: .env.local is loaded when it exists, else .env when it
\* exists.
LoadDotenv ==
    /\ libCall.pc = "load_dotenv"
    /\ libCall' =
          [libCall EXCEPT
              !.pc = "getenv",
              !.environ =
                  IF libCall.env_local # None
                  THEN load_dotenv(@, libCall.env_local)
                  ELSE IF libCall.env_file # None
                  THEN load_dotenv(@, libCall.env_file)
                  ELSE @]
    /\ ConfigFrame

\* Lines 37-65: the dictionary of environment values and defaults.
ReadEnviron ==
    /\ libCall.pc = "getenv"
    /\ libCall' = [libCall EXCEPT
                      !.pc = "config_json",
                      !.config = Some(getenv(libCall.environ, "<default>"))]
    /\ ConfigFrame

\* Lines 67-75: config.update(file_config) when config.json exists; return.
UpdateFromFile ==
    /\ libCall.pc = "config_json"
    /\ libCall' =
          [libCall EXCEPT
              !.pc = "returned",
              !.config = IF libCall.config_json # None
                         THEN Some(update(@[1], libCall.config_json[1]))
                         ELSE @]
    /\ ConfigFrame

ConfigNext ==
    \/ LoadDotenv
    \/ ReadEnviron
    \/ UpdateFromFile

ConfigSpec == ConfigInit /\ [][ConfigNext]_vars

\* ================================================================ claims
IsPrefix(s, t) == Len(s) <= Len(t) /\ \A k \in 1..Len(s) : s[k] = t[k]
Contains(seq, x) == \E k \in 1..Len(seq) : seq[k] = x

\* The steps of generate_design inside its try block.
TrySteps ==
    {"create_preview", "wait_preview", "create_refine", "wait_refine",
     "download", "save"}

FailedAt(u, steps) == u.failure # None /\ u.failure[1].step \in steps

\* generate_design ended as a JewelryGenerationError caused by what the
\* failing step raised.
EndedAsGenerationError(u) ==
    /\ u.result # None
    /\ ~u.result[1].ok
    /\ u.result[1].exc.type = "JewelryGenerationError"
    /\ u.result[1].exc.cause = u.failure[1].exc

\* C1: in live mode, whatever a step of the try block raises (creating the
\* preview task, either wait, creating the refine task, the download, the
\* metadata save), generate_design ends as one JewelryGenerationError whose
\* cause is that exception.
C1_TryBlockWraps ==
    \A i \in Units :
        (~mock_mode /\ FailedAt(unit[i], TrySteps))
            => EndedAsGenerationError(unit[i])

\* C1 witness: a wait on the refine task ended by an AttributeError of the
\* client, and generate_design raised.
C1_Witness ==
    \E i \in Units :
        /\ ~mock_mode
        /\ FailedAt(unit[i], {"wait_refine"})
        /\ unit[i].failure[1].exc.type = "AttributeError"
        /\ unit[i].result # None

ListSet(list) == {list[k] : k \in 1..Len(list)}
NoDuplicates(list) == Cardinality(ListSet(list)) = Len(list)

\* C2: generate_batch never raises because a design's generate_design
\* raised; when it has returned, the returned list holds exactly the designs
\* whose generate_design returned, each once, and every design is in exactly
\* one of completed_designs and failed_designs.
C2_BatchPartitions ==
    (call = "generate_batch" /\ retval # None) =>
        /\ retval = Some(Returned(completed_designs))
        /\ ListSet(completed_designs) =
              {i \in Batch : unit[i].result # None /\ unit[i].result[1].ok}
        /\ ListSet(failed_designs) =
              {i \in Batch : unit[i].result # None /\ ~unit[i].result[1].ok}
        /\ NoDuplicates(completed_designs)
        /\ NoDuplicates(failed_designs)
        /\ Len(completed_designs) + Len(failed_designs) = batch_size

\* C2 witness: a batch that returned with one design completed and another
\* one failed.
C2_Witness ==
    /\ call = "generate_batch"
    /\ retval # None
    /\ Len(completed_designs) = 1
    /\ Len(failed_designs) = 1

\* The steps of one design in live mode with wait_for_completion, in order.
LiveOrder ==
    <<"mkdir", "create_preview", "preview_SUCCEEDED", "create_refine",
      "refine_SUCCEEDED", "download", "attach", "save">>

\* C3: in live mode the steps of a design are taken in the order of
\* LiveOrder, none skipped: the refine task is created only after the wait
\* on the preview task returned a SUCCEEDED task, the download starts only
\* after the wait on the refine task returned a SUCCEEDED task, the asset
\* fields and the metadata follow the download, and the callback of stage
\* complete follows the metadata save.
C3_LifecycleOrder ==
    \A i \in Units :
        LET u == unit[i] IN
        ~mock_mode =>
            /\ IsPrefix(u.log, LiveOrder)
            /\ ("create_text_to_3d_refine" \in u.remoteOps
                    => Contains(u.log, "preview_SUCCEEDED"))
            /\ ("download_3d_model" \in u.remoteOps
                    => Contains(u.log, "refine_SUCCEEDED"))
            /\ (u.design.model_urls # <<>> => Contains(u.log, "download"))
            /\ (u.metadata # None => Contains(u.log, "attach"))
            /\ (u.completeCalls > 0 =>
                    /\ u.metadata # None
                    /\ u.lastCb = Some([progress |-> 100,
                                        status |-> "SUCCEEDED",
                                        stage |-> "complete"]))
            /\ ((wait_for_completion /\ u.result # None /\ u.result[1].ok)
                    => u.log = LiveOrder)

\* C3 witness: a live generate_design that waited and returned, its
\* callback invoked with stage complete.
C3_Witness ==
    \E i \in Units :
        /\ ~mock_mode
        /\ wait_for_completion
        /\ unit[i].result # None
        /\ unit[i].result[1].ok
        /\ unit[i].completeCalls = 1

\* The steps whose exceptions come from create_text_to_3d_preview,
\* create_text_to_3d_refine or get_text_to_3d_task.
ClientSteps ==
    {"create_preview", "wait_preview", "create_refine", "wait_refine"}

\* C4: the client's create and get operations raise MeshyAPIError, and no
\* other exception, on every failure: with a non-2xx response, with no
\* response at all, and (create) with a 2xx response without a task id.
C4_ClientRaisesMeshyAPIError ==
    \A i \in Units :
        FailedAt(unit[i], ClientSteps)
            => unit[i].failure[1].exc.type = "MeshyAPIError"

\* C8: in mock mode generate_design invokes no operation of the client;
\* when it returned, model_urls has exactly the requested formats, the
\* thumbnail is set, the design's directory exists, the metadata is
\* persisted, and the callback was invoked once, with 100 and
\* MOCK_COMPLETED.
C8_MockOffline ==
    \A i \in Units :
        LET u == unit[i] IN
        mock_mode =>
            /\ u.remoteOps = {}
            /\ (u.result # None /\ u.result[1].ok) =>
                  /\ DOMAIN u.design.model_urls = formats
                  /\ u.design.thumbnail_url # None
                  /\ u.dir
                  /\ u.metadata = Some(u.design)
                  /\ progress_callback =>
                        /\ u.completeCalls = 1
                        /\ u.lastCb = Some([progress |-> 100,
                                            status |-> "MOCK_COMPLETED",
                                            stage |-> "complete"])

\* C8 witness: a mock generate_design for formats other than the default
\* returned, with a callback.
C8_Witness ==
    \E i \in Units :
        /\ mock_mode
        /\ progress_callback
        /\ formats # DefaultFormats
        /\ unit[i].result # None
        /\ unit[i].result[1].ok

\* C9: an I/O failure of the mock path (creating the output directory,
\* persisting the metadata) or of the output-directory creation in live
\* mode leaves generate_design as a JewelryGenerationError carrying the
\* cause.
C9_IOFailuresWrapped ==
    \A i \in Units :
        (\/ FailedAt(unit[i], {"mkdir"})
         \/ (mock_mode /\ FailedAt(unit[i], {"save"})))
            => EndedAsGenerationError(unit[i])

\* ------------------------------------------------- claims on the pool
Started(i) == unit[i].pc \notin {"absent", "created", "queued"}
InFlight(i) == Started(i) /\ unit[i].pc # "done"
Polling(i) == unit[i].pc \in {"wait_preview", "wait_refine"}

\* A design fails in this step.
FailsNow(i) == unit[i].failure = None /\ unit'[i].failure # None

\* The call of design j ended the way its own steps made it end: returned
\* after all its steps, or raised what one of its steps raised.
OwnOutcome(j) ==
    /\ unit[j].result # None
    /\ IF unit[j].result[1].ok
       THEN unit[j].failure = None /\ Contains(unit[j].log, "save")
       ELSE unit[j].failure # None

\* C6: the failure of a design changes nothing of any other design (no
\* sibling is cancelled or altered by that step), and when generate_batch
\* has returned every design was started and ended with its own outcome.
C6_SiblingsUnaffected ==
    /\ [][\A i \in Units : FailsNow(i) =>
              \A j \in Units \ {i} : unit'[j] = unit[j]]_vars
    /\ []((call = "generate_batch" /\ retval # None) =>
              \A j \in Batch : Started(j) /\ OwnOutcome(j))

\* C6 witness: with one pool thread the first design failed before the
\* second was started, and the second one completed.
C6_Witness ==
    /\ call = "generate_batch"
    /\ max_workers = 1
    /\ retval # None
    /\ failed_designs = <<1>>
    /\ completed_designs = <<2>>

\* At most max_workers designs are in flight.
PoolBound == Cardinality({i \in Units : InFlight(i)}) <= max_workers

\* A pool thread leaves a design only when its generate_design has ended.
RunsToCompletion ==
    \A w \in Workers :
        (worker[w] # 0 /\ worker'[w] # worker[w])
            => unit'[worker[w]].pc = "done"

AllStarted == \A i \in Batch : Started(i)

\* C7 as claimed: at most max_workers designs are in flight, a pool thread
\* runs a design to its end before it takes another, and every design of
\* the batch is eventually started.
C7_Original ==
    /\ []PoolBound
    /\ [][RunsToCompletion]_vars
    /\ <>AllStarted

\* C7 as amended: at most max_workers designs are in flight, a pool thread
\* runs a design to its end before it takes another, and every design of
\* the batch is eventually started provided no design's wait polls for
\* ever (every remote job polled reaches a terminal status or its fetch
\* fails).
C7_PoolBoundAndStart ==
    /\ []PoolBound
    /\ [][RunsToCompletion]_vars
    /\ ((\A i \in Units : <>[]~Polling(i)) => <>AllStarted)

\* C7 witness: max_workers designs are in flight and another one waits in
\* the queue.
C7_Witness ==
    /\ call = "generate_batch"
    /\ Cardinality({i \in Units : InFlight(i)}) = max_workers
    /\ \E i \in Units : unit[i].pc = "queued"

\* generate_batch returned its list.
BatchReturned ==
    call = "generate_batch" /\ retval # None /\ retval[1].ok

\* ------------------------------------------------- claims on batch_id
\* C12: the designs of a generate_batch call all carry the call's batch id,
\* which is not None, at every moment, and so does the metadata persisted
\* for them; the design of a generate_design call has batch_id None; no
\* step of a generation changes a design's batch_id.
C12_BatchIdShared ==
    /\ [](call = "generate_batch" =>
             /\ unit[1].design.batch_id # None
             /\ \A i \in Batch :
                   /\ unit[i].design.batch_id = unit[1].design.batch_id
                   /\ unit[i].metadata # None =>
                         unit[i].metadata[1].batch_id = unit[1].design.batch_id)
    /\ [](call = "generate_design" => unit[1].design.batch_id = None)
    /\ [][\A i \in Units :
              unit'[i].design.batch_id = unit[i].design.batch_id]_vars

\* C12 witness: a batch of two returned both designs, generated from remote
\* tasks, with their metadata persisted.
C12_Witness ==
    /\ BatchReturned
    /\ ~mock_mode
    /\ Len(retval[1].value) = 2
    /\ \A i \in Batch : unit[i].metadata # None

\* ------------------------------------- claims on wait_for_completion
\* C13: a live generate_design with wait_for_completion false invokes no
\* MeshyAPI operation but create_text_to_3d_preview, is handed no task by a
\* poll, persists no metadata and never invokes the callback; the design's
\* asset fields stay as they were; when it returned, its steps were mkdir
\* and the creation of the preview task, and the design differs from the
\* one passed in only in its description, which holds the preview task id.
C13_NoWaitStopsAfterPreview ==
    (call = "generate_design" /\ ~mock_mode /\ ~wait_for_completion) =>
        LET u == unit[1]
            before == JewelryDesign(1, None)
        IN  /\ u.remoteOps \subseteq {"create_text_to_3d_preview"}
            /\ ~u.polled
            /\ u.metadata = None
            /\ u.lastCb = None /\ u.completeCalls = 0
            /\ u.design.model_urls = before.model_urls
            /\ u.design.thumbnail_url = before.thumbnail_url
            /\ u.design.texture_urls = before.texture_urls
            /\ IF u.result # None /\ u.result[1].ok
               THEN /\ u.log = <<"mkdir", "create_preview">>
                    /\ u.design =
                          [before EXCEPT !.description =
                              Some(<<"Preview task ID: ", "task-id">>)]
               ELSE u.design = before

\* C13 witness: such a call, given a callback, returned.
C13_Witness ==
    /\ call = "generate_design" /\ ~mock_mode /\ ~wait_for_completion
    /\ progress_callback
    /\ unit[1].result # None /\ unit[1].result[1].ok

\* --------------------------------------- claims on download_3d_model
\* C14 as claimed: whatever makes a download fail, download_3d_model raises
\* a MeshyAPIError.
C14_DownloadRaisesMeshyAPIError ==
    \A i \in Units :
        FailedAt(unit[i], {"download"}) =>
            unit[i].failure[1].exc.type = "MeshyAPIError"

\* --------------------------------------- claims on the batch's callback
\* The caller's callback was invoked with design i as its design argument.
CalledBackWith(i) == unit[i].lastCb # None

\* C11 as claimed: when generate_batch was given a callback and returned,
\* the callback was invoked with every design of the batch, those that
\* failed in a remote call included, and the list returned has one entry
\* less than the batch for one failure.
C11_Original ==
    (BatchReturned /\ progress_callback) =>
        /\ \A i \in Batch :
              (Finished(i) /\ (unit[i].result[1].ok \/ FailedAt(unit[i], ClientSteps)))
                  => CalledBackWith(i)
        /\ Len(failed_designs) = 1 => Len(retval[1].value) = batch_size - 1

\* C11 as amended: when generate_batch was given a callback and returned,
\* the callback was invoked with exactly the designs whose generation
\* returned or was handed at least one task snapshot by a poll; a design
\* that failed earlier (creating the preview task, or at its first fetch)
\* was never passed to it.  The list returned has one entry per design that
\* did not fail.
C11_CallbackCoverage ==
    (BatchReturned /\ progress_callback) =>
        /\ \A i \in Batch :
              CalledBackWith(i) <=> (unit[i].result[1].ok \/ unit[i].polled)
        /\ Len(retval[1].value) = batch_size - Len(failed_designs)

\* C11 witness: a batch with a callback returned one design of two; the
\* design that failed did so at a poll of its refine task, after the
\* callback had been invoked with it.
C11_Witness ==
    /\ BatchReturned /\ progress_callback
    /\ batch_size = 2
    /\ Len(retval[1].value) = 1
    /\ \E i \in Batch :
          /\ FailedAt(unit[i], {"wait_refine"})
          /\ CalledBackWith(i)

\* ------------------------------------------- claims on JewelryDesign
\* C15: a design constructed without a chain style has chain_style cuban
\* when its type is chain and None for every other type; a chain style
\* given is kept, whatever the type; type and material are as given.
C15_DefaultChainStyle ==
    libCall.pc # "new" =>
        LET a == libCall.args
            d == libCall.design[1]
        IN  /\ d.jewelry_type = a.jewelry_type
            /\ d.material = a.material
            /\ d.chain_style =
                  IF a.chain_style # None THEN a.chain_style
                  ELSE IF a.jewelry_type.value = "chain"
                  THEN Some(Member("ChainStyle", "cuban"))
                  ELSE None

\* C15 witness: a necklace was constructed without a chain style.
C15_Witness ==
    /\ libCall.pc = "constructed"
    /\ libCall.args.jewelry_type.value = "necklace"
    /\ libCall.args.chain_style = None
    /\ libCall.design[1].chain_style = None

\* C16: to_dict(from_dict(to_dict(x))) = to_dict(x), field for field.
C16_DictRoundTrip ==
    libCall.pc = "dict2" => libCall.data2[1] = libCall.data[1]

\* C16 witness: the round trip of a design without name and without chain
\* style, with generated assets and a creation time with microseconds.
C16_Witness ==
    /\ libCall.pc = "dict2"
    /\ libCall.args.name = <<>>
    /\ libCall.args.chain_style = None
    /\ libCall.args.jewelry_type.value # "chain"
    /\ libCall.args.generated
    /\ libCall.args.created_at.microsecond # 0

\* text holds the words of phrase, one after the other.
ContainsPhrase(text, phrase) ==
    \E k \in 1..(Len(text) - Len(phrase) + 1) :
        SubSeq(text, k, k + Len(phrase) - 1) = phrase

\* C18 as claimed: the lower-cased prompt holds "<material> <type>"; for a
\* chain with a style "<style> style links"; for a ring "round band"; for
\* an earring "ear hook".
C18_PromptPhrases ==
    libCall.pc = "prompted" =>
        LET d == libCall.design[1]
            p == lower(libCall.prompt[1])
        IN  /\ ContainsPhrase(p, <<d.material.value, d.jewelry_type.value>>)
            /\ (d.jewelry_type.value = "chain" /\ d.chain_style # None) =>
                  ContainsPhrase(p, <<d.chain_style[1].value, "style",
                                      "links">>)
            /\ d.jewelry_type.value = "ring" =>
                  ContainsPhrase(p, <<"round", "band">>)
            /\ d.jewelry_type.value = "earring" =>
                  ContainsPhrase(p, <<"ear", "hook">>)

\* ---------------------------------------------- claims on load_config
\* The value the environment gives the key: the process environment's, else
\* that of the env file in use (the local override file when there is one,
\* else the generic env file).
EnvironmentValue(c) ==
    IF c.inherited # None THEN c.inherited
    ELSE IF c.env_local # None THEN c.env_local[1]
    ELSE IF c.env_file # None THEN c.env_file[1]
    ELSE None

\* C17 as claimed: load_config returns the environment's value for a key
\* the environment sets, config.json's value for a key only config.json
\* sets, and the default for a key neither sets.
C17_EnvironmentOverridesFile ==
    libCall.pc = "returned" =>
        LET c == libCall
            env == EnvironmentValue(c)
        IN  c.config[1] =
                IF env # None THEN env[1]
                ELSE IF c.config_json # None /\ c.config_json[1] # None
                THEN c.config_json[1][1]
                ELSE "<default>"

\* ------------------------------------- claims on wait_for_task_completion
Terminal == {"SUCCEEDED", "FAILED", "CANCELED"}

\* The call went on after its k-th fetch: it fetched again, or it is still
\* in its loop.
WentOn(c, k) == c.polls > k \/ c.pc = "polling"

\* The call ended at its k-th fetch with a MeshyAPIError whose message
\* starts with `first`.
EndedWithError(c, k, first) ==
    /\ c.polls = k
    /\ c.result # None
    /\ ~c.result[1].ok
    /\ c.result[1].exc.type = "MeshyAPIError"
    /\ c.result[1].exc.message[1] = first

\* The call returns only the snapshot of a fetch with status SUCCEEDED.
ReturnsOnSuccessOnly(c) ==
    (c.result # None /\ c.result[1].ok) =>
        /\ c.fetched # <<>>
        /\ c.fetched[Len(c.fetched)].status = "SUCCEEDED"
        /\ c.result[1].value = c.fetched[Len(c.fetched)]

\* The first fetch with status SUCCEEDED, FAILED or CANCELED is the last
\* one; on FAILED or CANCELED the call raises a MeshyAPIError whose message
\* holds the status and the task's own error message, when it has one.
EndsOnTerminal(c) ==
    \A k \in 1..Len(c.fetched) :
        LET t == c.fetched[k] IN
        /\ t.status \in Terminal => (k = Len(c.fetched) /\ c.polls = k)
        /\ t.status \in {"FAILED", "CANCELED"} =>
              /\ EndedWithError(c, k, "Task failed with status ")
              /\ Contains(c.result[1].exc.message, t.status)
              /\ t.task_error # None =>
                    Contains(c.result[1].exc.message, t.task_error[1])

\* The call's timeout has run out at its k-th fetch, fetches taking no time
\* and every sleep taking the polling interval.
TimedOutAt(c, k) ==
    Truthy(c.timeout) /\ (k - 1) * PollingInterval > c.timeout[1]

\* C5 as claimed: the call returns only on SUCCEEDED, raises on the first
\* FAILED or CANCELED, and after every fetch with another status it polls
\* again.
C5_Original ==
    LET c == waitCall IN
    /\ ReturnsOnSuccessOnly(c)
    /\ EndsOnTerminal(c)
    /\ \A k \in 1..Len(c.fetched) :
          c.fetched[k].status \notin Terminal => WentOn(c, k)

\* C5 as amended: the call returns only on SUCCEEDED, raises on the first
\* FAILED or CANCELED, and after a fetch with another status it polls again
\* unless a timeout is set and has run out, in which case it raises a
\* MeshyAPIError instead of polling again.
C5_WaitOutcome ==
    LET c == waitCall IN
    /\ ReturnsOnSuccessOnly(c)
    /\ EndsOnTerminal(c)
    /\ \A k \in 1..Len(c.fetched) :
          c.fetched[k].status \notin Terminal =>
              IF TimedOutAt(c, k)
              THEN EndedWithError(c, k, "Task timed out after ")
              ELSE WentOn(c, k)

\* C5 witness: after a fetch of a running task, a fetch of a CANCELED task
\* that carries an error message ended the call.
C5_Witness ==
    LET c == waitCall IN
    /\ Len(c.fetched) = 2
    /\ c.fetched[1].status = "PENDING"
    /\ c.fetched[2].status = "CANCELED"
    /\ c.fetched[2].task_error # None
    /\ c.result # None

Progresses(seq) == [k \in 1..Len(seq) |-> seq[k].progress]

\* seq without the elements equal to their predecessor.
RECURSIVE Dedup(_)
Dedup(seq) ==
    IF Len(seq) <= 1 THEN seq
    ELSE LET front == Dedup(SubSeq(seq, 1, Len(seq) - 1)) IN
         IF seq[Len(seq)] = seq[Len(seq) - 1] THEN front
         ELSE Append(front, seq[Len(seq)])

Count(seq, v) == Cardinality({k \in 1..Len(seq) : seq[k] = v})

\* C10 as claimed: with a callback, every progress value fetched is
\* reported exactly once, and no value a second time.
C10_Original ==
    LET c == waitCall IN
    c.has_cb =>
        \A v \in ProgressValues :
            Count(Progresses(c.reported), v) =
                IF Contains(Progresses(c.fetched), v) THEN 1 ELSE 0

\* C10 as amended: with a callback, the values reported are the values
\* fetched, in order, each run of equal consecutive values reported once; a
\* value fetched again after a different one is reported again.
C10_ReportsOncePerRun ==
    LET c == waitCall IN
    c.has_cb => Progresses(c.reported) = Dedup(Progresses(c.fetched))

\* C10 witness: a value was fetched twice in a row and reported once, then
\* another value was reported.
C10_Witness ==
    LET c == waitCall IN
    /\ c.has_cb
    /\ Len(c.fetched) = 3
    /\ c.fetched[1].progress = c.fetched[2].progress
    /\ c.fetched[3].progress # c.fetched[2].progress
    /\ Len(c.reported) = 2

\* The invocations the fetched snapshots call for: one for the first, and
\* one for each whose progress differs from the progress passed at the
\* invocation before, with the progress and the status of that snapshot.
RECURSIVE Invocations(_)
Invocations(fetched) ==
    IF fetched = <<>> THEN <<>>
    ELSE LET front == Invocations(SubSeq(fetched, 1, Len(fetched) - 1))
             task == fetched[Len(fetched)]
         IN  IF front = <<>> \/ front[Len(front)].progress # task.progress
             THEN Append(front, [progress |-> task.progress,
                                 status |-> task.status])
             ELSE front

\* C19: the callback is invoked at a poll exactly when the progress fetched
\* differs from the progress of the previous invocation (at the first poll
\* always), with that poll's progress and status, also when the value is
\* lower than the last one and also at the poll that ends the call;
\* without a callback nothing is invoked.
C19_ReportsOnChange ==
    LET c == waitCall IN
    c.reported = IF c.has_cb THEN Invocations(c.fetched) ELSE <<>>

\* C19 witness: a progress value lower than the one reported before came
\* with the FAILED snapshot that ended the call, and was reported.
C19_Witness ==
    LET c == waitCall IN
    /\ c.has_cb
    /\ Len(c.fetched) = 2
    /\ c.fetched[2].progress < c.fetched[1].progress
    /\ c.fetched[2].status = "FAILED"
    /\ c.result # None
    /\ Len(c.reported) = 2
    /\ c.reported[2].status = "FAILED"

\* The time since the call began exceeds its timeout at the k-th fetch.
TimeExceededAt(c, k) ==
    c.timeout # None /\ (k - 1) * PollingInterval > c.timeout[1]

\* C20 as claimed: with a timeout given, the call raises a MeshyAPIError at
\* the first fetch of a non-terminal status made after the timeout ran out
\* and does not fetch again, so no fetch is made later than one polling
\* interval after the timeout; before that it polls on; a fetch of
\* SUCCEEDED returns the task even after the timeout ran out.
C20_TimeoutEnforced ==
    LET c == waitCall IN
    c.timeout # None =>
        /\ \A k \in 1..Len(c.fetched) :
              /\ c.fetched[k].status \notin Terminal =>
                    IF TimeExceededAt(c, k)
                    THEN EndedWithError(c, k, "Task timed out after ")
                    ELSE WentOn(c, k)
              /\ c.fetched[k].status = "SUCCEEDED" =>
                    (c.polls = k /\ c.result # None /\ c.result[1].ok)
        /\ c.polls >= 1 =>
              (c.polls - 1) * PollingInterval
                  <= c.timeout[1] + PollingInterval

\* ------------------------------------------- claims on progress values
\* The progress values the service sends while designs are generated.
RemoteProgress == {t.progress : t \in ServiceTasks}

\* p is the integer part of r / 2.
IsHalfOf(p, r) == 2 * p <= r /\ r < 2 * p + 2

\* C21: every progress the caller's callback gets is an integer in 0..100;
\* in the preview stage it is the integer part of half a remote progress
\* and lies in 0..50, in the refine stage it is 50 more than that and lies
\* in 50..100; and so do preview_progress_cb and refine_progress_cb map
\* every remote progress in 0..100.
C21_OverallProgressRange ==
    /\ \A i \in Units :
          unit[i].lastCb # None =>
              LET cb == unit[i].lastCb[1] IN
              /\ cb.progress \in 0..100
              /\ cb.stage = "preview" =>
                    /\ cb.progress \in 0..50
                    /\ \E r \in RemoteProgress : IsHalfOf(cb.progress, r)
              /\ cb.stage = "refine" =>
                    /\ cb.progress \in 50..100
                    /\ \E r \in RemoteProgress :
                          IsHalfOf(cb.progress - 50, r)
    /\ \A r \in 0..100 :
          /\ Overall("preview", r) \in 0..50
          /\ IsHalfOf(Overall("preview", r), r)
          /\ Overall("refine", r) \in 50..100
          /\ IsHalfOf(Overall("refine", r) - 50, r)

\* C21 witness: a remote refine progress of 37 was reported as 68.
C21_Witness ==
    \E i \in Units :
        /\ unit[i].lastCb # None
        /\ unit[i].lastCb[1].stage = "refine"
        /\ unit[i].lastCb[1].progress = 68

\* --------------------------------------------------- claims on retries
\* C22: a generate_design call creates at most one preview task and at
\* most one refine task and downloads at most once; once a step of a design
\* has failed nothing of that design changes any more: no operation is
\* invoked for it again, by its call or by generate_batch.
C22_NoRetry ==
    /\ [](\A i \in Units :
             \A step \in {"create_preview", "create_refine", "download"} :
                 Count(unit[i].log, step) <= 1)
    /\ [][\A i \in Units :
              unit[i].failure # None => unit'[i] = unit[i]]_vars

\* C22 witness: in a batch one design failed creating its preview task and
\* generate_batch went on to return the other.
C22_Witness ==
    /\ BatchReturned
    /\ Len(retval[1].value) = 1
    /\ \E i \in Batch :
          /\ FailedAt(unit[i], {"create_preview"})
          /\ unit[i].remoteOps = {"create_text_to_3d_preview"}

\* ------------------------------------------- claims on the final report
LastReported(i, progress) ==
    unit[i].lastCb # None /\ unit[i].lastCb[1].progress = progress

\* C26: the callback got 100 for a design only after the design's assets
\* were downloaded (mock mode has none) and its metadata saved, and such a design has not failed;
\* so when generate_batch has returned, the designs whose last report was
\* 100 are no more than the designs returned.
C26_HundredMeansPersisted ==
    /\ \A i \in Units :
          LastReported(i, 100) =>
              /\ mock_mode \/ Count(unit[i].log, "download") = 1
              /\ unit[i].metadata # None
              /\ unit[i].failure = None
    /\ BatchReturned =>
          Cardinality({i \in Batch : LastReported(i, 100)})
              <= Len(retval[1].value)

\* ------------------------------------------- claims on the asset fields
AssetFields(d) ==
    [model_urls |-> d.model_urls, thumbnail_url |-> d.thumbnail_url,
     texture_urls |-> d.texture_urls]
RaisedGenerationError(u) ==
    /\ u.result # None
    /\ ~u.result[1].ok
    /\ u.result[1].exc.type = "JewelryGenerationError"

\* C27 as claimed: when generate_design raised JewelryGenerationError the
\* design's asset fields are what they were before the call, whichever
\* step failed.
C27_Original ==
    \A i \in Units :
        RaisedGenerationError(unit[i]) =>
            AssetFields(unit[i].design)
                = AssetFields(JewelryDesign(i, unit[i].design.batch_id))

\* C27: when generate_design raised JewelryGenerationError at a step before
\* save_design_metadata the design's asset fields are what they were before
\* the call; when save_design_metadata failed they are the refine task's
\* URLs, attached before the save was tried.
C27_AssetFieldsOnFailure ==
    /\ [](\A i \in Units :
            (RaisedGenerationError(unit[i]) /\ ~FailedAt(unit[i], {"save"}))
                => AssetFields(unit[i].design)
                     = AssetFields(JewelryDesign(i, unit[i].design.batch_id)))
    /\ [][\A i \in Units :
            (unit[i].result = None /\ RaisedGenerationError(unit'[i])
                                  /\ FailedAt(unit'[i], {"save"}))
                => /\ AssetFields(unit'[i].design)
                        = AssetFields(Attach(unit[i].design,
                                             unit[i].refine_task[1]))
                   /\ AssetFields(unit'[i].design) = TaskPayload]_vars

C27_Witness ==
    \E i \in Units :
        /\ RaisedGenerationError(unit[i])
        /\ FailedAt(unit[i], {"save"})
        /\ unit[i].design.model_urls # <<>>
        /\ unit[i].metadata = None

\* ------------------------------------------- claims on batch termination
\* C28: generate_batch has ended only when the generate_design call of each
\* of its designs has ended and every pool thread is idle; its calls run
\* without timeout, so a design that is polling can always poll once more;
\* and if no design polls for ever (each job reaches SUCCEEDED, FAILED or
\* CANCELED, or a fetch fails) generate_batch eventually ends.
C28_BatchTermination ==
    /\ []((call = "generate_batch" /\ retval # None) =>
            /\ \A i \in Batch : Finished(i)
            /\ \A w \in Workers : worker[w] = 0)
    /\ [](call = "generate_batch" =>
            /\ timeout = None
            /\ \A i \in Batch :
                  Polling(i) => ENABLED (Step(i) /\ unit'[i].pc = unit[i].pc))
    /\ (\A i \in Units : []<>(~Polling(i)))
          => <>(call = "generate_batch" => retval # None)

C28_Witness ==
    /\ BatchReturned
    /\ batch_size = BatchSize
    /\ \A i \in Batch : unit[i].polled
    /\ \E i \in Batch : Count(unit[i].log, "refine_SUCCEEDED") = 1

\* ------------------------------------------- claims on the two waits
TimedOut(u) ==
    /\ u.failure # None
    /\ u.failure[1].exc.type = "MeshyAPIError"
    /\ Head(u.failure[1].exc.message) = "Task timed out after "

MaxReports == 2     \* invocations of the callback followed per design

\* What a design's generate_design passes to the callback.
Reports == {[progress |-> 50, status |-> "IN_PROGRESS"],
            [progress |-> 100, status |-> "SUCCEEDED"]}

\* A thread's invocation of update_progress: its position, its arguments,
\* the iterator of the running sum (next index, dictionary size when it was
\* created) and the locals total_progress and completed.
IdleFrame ==
    [pc |-> "idle", progress |-> 0, status |-> "PENDING", it |-> 0,
     size0 |-> 0, total_progress |-> 0, completed |-> 0]

\* The batch command while generate_batch runs:
\*   state      per design: queued, running on a pool thread, or ended
\*   frame      per design: its thread's invocation of update_progress
\*   keys, design_progress    the dictionary design_progress: its keys in
\*              insertion order and the entry of each key
\*   first_completed_design   None or the design
\*   echoed     None or the totals last displayed
\*   reports    per design: invocations made
\*   raised     per design: TRUE iff update_progress raised in its thread
ProgressCall ==
    [pc |-> "batch",
     state |-> [i \in Units |-> "queued"],
     frame |-> [i \in Units |-> IdleFrame],
     keys |-> <<>>,
     design_progress |-> [i \in Units |-> None],
     first_completed_design |-> None,
     echoed |-> None,
     reports |-> [i \in Units |-> 0],
     raised |-> [i \in Units |-> FALSE]]

ProgressInit ==
    /\ call = "batch"
    /\ mock_mode = FALSE
    /\ wait_for_completion = TRUE
    /\ progress_callback = TRUE
    /\ timeout = None
    /\ formats = DefaultFormats
    /\ batch_size = BatchSize
    /\ max_workers \in 1..MaxWorkers
    /\ unit = [i \in Units |-> Unit(i, "absent", None)]
    /\ worker = [w \in Workers |-> 0]
    /\ mainPc = "caller"
    /\ completed_designs = <<>>
    /\ failed_designs = <<>>
    /\ retval = None
    /\ waitCall = WaitCall("none", FALSE, None)
    /\ libCall = ProgressCall

ProgressFrame == UNCHANGED <<argVars, unit, worker, batchVars, waitCall>>

Running == {i \in Units : libCall.state[i] = "running"}
InCallback(i) == libCall.frame[i].pc # "idle"

\* A pool thread takes the oldest queued design when fewer than max_workers
\* designs are running (ThreadPoolExecutor, lines 354-370).
StartDesign(i) ==
    /\ libCall.state[i] = "queued"
    /\ \A j \in 1..(i - 1) : libCall.state[j] # "queued"
    /\ Cardinality(Running) < max_workers
    /\ libCall' = [libCall EXCEPT !.state[i] = "running"]
    /\ ProgressFrame

\* The design's generate_design ends.
EndDesign(i) ==
    /\ libCall.state[i] = "running"
    /\ ~InCallback(i)
    /\ libCall' = [libCall EXCEPT !.state[i] = "ended"]
    /\ ProgressFrame

\* Mutant of Invoke: the callback is entered under a lock.
InvokeLocked(i) ==
    /\ libCall.state[i] = "running"
    /\ ~InCallback(i)
    /\ \A j \in Units \ {i} : ~InCallback(j)
    /\ libCall.reports[i] < MaxReports
    /\ \E r \in Reports :
          libCall' = [libCall EXCEPT
                         !.frame[i] = [IdleFrame EXCEPT
                                          !.pc = "insert",
                                          !.progress = r.progress,
                                          !.status = r.status],
                         !.reports[i] = @ + 1]
    /\ ProgressFrame

\* The design's thread calls the lambda, design_progress_callback and
\* update_progress(progress, status, design): there is no lock on the way.
Invoke(i) ==
    /\ libCall.state[i] = "running"
    /\ ~InCallback(i)
    /\ libCall.reports[i] < MaxReports
    /\ \E r \in Reports :
          libCall' = [libCall EXCEPT
                         !.frame[i] = [IdleFrame EXCEPT
                                          !.pc = "insert",
                                          !.progress = r.progress,
                                          !.status = r.status],
                         !.reports[i] = @ + 1]
    /\ ProgressFrame

\* cli.py lines 262-266: the design's entry is created when absent.
InsertEntry(i) ==
    /\ libCall.frame[i].pc = "insert"
    /\ libCall' =
          IF libCall.design_progress[i] = None
          THEN [libCall EXCEPT
                   !.frame[i].pc = "set_progress",
                   !.keys = Append(@, i),
                   !.design_progress[i] =
                       Some([progress |-> 0, status |-> "PENDING"])]
          ELSE [libCall EXCEPT !.frame[i].pc = "set_progress"]
    /\ ProgressFrame

\* Line 268.
SetProgress(i) ==
    /\ libCall.frame[i].pc = "set_progress"
    /\ libCall' = [libCall EXCEPT
                      !.frame[i].pc = "set_status",
                      !.design_progress[i] =
                          Some([@[1] EXCEPT
                                   !.progress = libCall.frame[i].progress])]
    /\ ProgressFrame

\* Line 269, and the iterator of the sum of line 272 is created.
SetStatus(i) ==
    /\ libCall.frame[i].pc = "set_status"
    /\ libCall' = [libCall EXCEPT
                      !.frame[i].pc = "sum",
                      !.frame[i].it = 1,
                      !.frame[i].size0 = Len(libCall.keys),
                      !.frame[i].total_progress = 0,
                      !.design_progress[i] =
                          Some([@[1] EXCEPT
                                   !.status = libCall.frame[i].status])]
    /\ ProgressFrame

\* next() of an iterator over design_progress.values(): "raise" when the
\* dictionary changed size since the iterator was created (RuntimeError),
\* "stop" at the end, else the next value.
IterNext(f) ==
    IF Len(libCall.keys) # f.size0 THEN [kind |-> "raise"]
    ELSE IF f.it > Len(libCall.keys) THEN [kind |-> "stop"]
    ELSE [kind |-> "value",
          value |-> libCall.design_progress[libCall.keys[f.it]][1]]

\* update_progress raised in the thread of design i: the exception leaves
\* the callback and ends the design's generate_design.
RaisedInCallback(i) ==
    [libCall EXCEPT !.frame[i] = IdleFrame,
                    !.state[i] = "ended",
                    !.raised[i] = TRUE]

\* Lines 272-276: one step of sum(d['progress'] for d in ...values()).
SumStep(i) ==
    /\ libCall.frame[i].pc = "sum"
    /\ LET n == IterNext(libCall.frame[i]) IN
       libCall' =
          IF n.kind = "raise" THEN RaisedInCallback(i)
          ELSE IF n.kind = "stop"
          THEN [libCall EXCEPT !.frame[i].pc = "count",
                               !.frame[i].it = 1,
                               !.frame[i].size0 = Len(libCall.keys),
                               !.frame[i].completed = 0]
          ELSE [libCall EXCEPT !.frame[i].it = @ + 1,
                               !.frame[i].total_progress =
                                   @ + n.value.progress]
    /\ ProgressFrame

\* Lines 279-288: one step of the count of entries at 100; at its end the
\* totals are displayed.
CountStep(i) ==
    /\ libCall.frame[i].pc = "count"
    /\ LET n == IterNext(libCall.frame[i]) IN
       libCall' =
          IF n.kind = "raise" THEN RaisedInCallback(i)
          ELSE IF n.kind = "stop"
          THEN [libCall EXCEPT
                   !.frame[i].pc = "first",
                   !.echoed =
                       Some([total_progress |->
                                 libCall.frame[i].total_progress,
                             completed |-> libCall.frame[i].completed])]
          ELSE [libCall EXCEPT
                   !.frame[i].it = @ + 1,
                   !.frame[i].completed =
                       IF n.value.progress = 100 THEN @ + 1 ELSE @]
    /\ ProgressFrame

\* Lines 291-297: the first completed design is kept; the callback returns.
TrackFirst(i) ==
    /\ libCall.frame[i].pc = "first"
    /\ libCall' =
          [libCall EXCEPT
              !.frame[i] = IdleFrame,
              !.first_completed_design =
                  IF /\ libCall.frame[i].progress = 100
                     /\ libCall.frame[i].status = "SUCCEEDED"
                     /\ @ = None
                  THEN Some(i) ELSE @]
    /\ ProgressFrame

ProgressNext ==
    \/ \E i \in Units : StartDesign(i)
    \/ \E i \in Units : Invoke(i)
    \/ \E i \in Units : InsertEntry(i)
    \/ \E i \in Units : SetProgress(i)
    \/ \E i \in Units : SetStatus(i)
    \/ \E i \in Units : SumStep(i)
    \/ \E i \in Units : CountStep(i)
    \/ \E i \in Units : TrackFirst(i)
    \/ \E i \in Units : EndDesign(i)

ProgressSpec == ProgressInit /\ [][ProgressNext]_vars

\* ------------------------------------------- claims on the shared display
\* The sum of the progress values in design_progress.
RECURSIVE SumOfProgress(_)
SumOfProgress(k) ==
    IF k = 0 THEN 0
    ELSE libCall.design_progress[libCall.keys[k]][1].progress
            + SumOfProgress(k - 1)

\* C23: nothing serialises the callback: a running design that is about to
\* report can enter update_progress whatever the other threads are doing,
\* also while another thread is inside it; only the pool bounds the threads
\* inside (at most max_workers, one with a single worker).
C23_NoMutualExclusion ==
    /\ \A i \in Units :
          (/\ libCall.state[i] = "running"
           /\ ~InCallback(i)
           /\ libCall.reports[i] < MaxReports) => ENABLED Invoke(i)
    /\ Cardinality({i \in Units : InCallback(i)}) <= max_workers
    /\ {i \in Units : InCallback(i)} \subseteq Running

\* C23 witness: two threads are inside update_progress at once, and one of
\* them holds a sum that the other's update has since made stale.
C23_Witness ==
    \E i, j \in Units :
        /\ i # j
        /\ libCall.frame[i].pc = "count"
        /\ libCall.frame[j].pc \in {"set_status", "sum"}
        /\ libCall.frame[i].total_progress
              # SumOfProgress(Len(libCall.keys))

\* ======================================================================
\* download_3d_model (meshy_api.py lines 298-375), one download_file call
\* (file_utils.py lines 132-177) after the other.
\* ======================================================================
\* The model_urls of a task: a URL for each format of a set.
ModelUrls(fmts) == [f \in fmts |-> "https://assets/model." \o f]

\* The texture sets of a task: each a dictionary slot -> URL, as the
\* sequence of its items.
TextureItem(slot) == [slot |-> slot, url |-> "https://assets/" \o slot]
TextureUrlChoices ==
    {None, Some(<<>>),
     Some(<< <<TextureItem("base_color")>> >>),
     Some(<< <<TextureItem("base_color"), TextureItem("normal")>>,
             <<TextureItem("roughness")>> >>)}

\* The task dictionaries passed to download_3d_model: a key may be absent
\* (None), the thumbnail URL may be empty.
DownloadTasks ==
    [model_urls : {None} \cup {Some(ModelUrls(fs)) :
                                   fs \in SUBSET {"glb", "obj", "mtl"}},
     thumbnail_url : {None, Some(""), Some("https://assets/thumbnail")},
     texture_urls : TextureUrlChoices]

\* The formats lists passed.
FormatLists ==
    {<<>>, <<"glb">>, <<"obj">>, <<"glb", "fbx">>, <<"glb", "glb">>,
     <<"obj", "mtl">>, <<"mtl", "obj", "glb">>}

\* A call download_3d_model(task, output_dir, formats, download_textures):
\*   k                 index of the format the model loop is at
\*   i, j              texture set (from 0) and item the texture loop is at
\*   files             the files downloaded completely, below output_dir
\*   calls             the number of download_file calls made
\*   downloaded_files  the dictionary built
\*   result            None, or how the call ended
DownloadCall(task, fmts, download_textures) ==
    [pc |-> "models", task |-> task, formats |-> fmts,
     download_textures |-> download_textures, k |-> 1, i |-> 0, j |-> 1,
     files |-> {}, calls |-> 0, downloaded_files |-> <<>>, result |-> None]

DownloadInit ==
    /\ call = "download_3d_model"
    /\ mock_mode = FALSE
    /\ wait_for_completion = TRUE
    /\ progress_callback = FALSE
    /\ timeout = None
    /\ formats = DefaultFormats
    /\ batch_size = 0
    /\ max_workers = 1
    /\ unit = [i \in Units |-> Unit(i, "absent", None)]
    /\ worker = [w \in Workers |-> 0]
    /\ mainPc = "caller"
    /\ completed_designs = <<>>
    /\ failed_designs = <<>>
    /\ retval = None
    /\ waitCall = WaitCall("none", FALSE, None)
    /\ \E task \in DownloadTasks, fmts \in FormatLists,
          download_textures \in BOOLEAN :
          libCall = DownloadCall(task, fmts, download_textures)

DownloadFrame == UNCHANGED <<argVars, unit, worker, batchVars, waitCall>>

\* downloaded_files[key] = path
SetItem(d, key, path) ==
    [x \in DOMAIN d \cup {key} |-> IF x = key THEN path ELSE d[x]]

\* download_file(url, path) followed by downloaded_files[key] = path, in a
\* call that is still running: the file is written, or requests or the
\* file system raises and the exception leaves download_3d_model as it is.
download_file(c, path, key, outcome) ==
    IF c.result # None THEN c
    ELSE IF outcome = "ok"
    THEN [c EXCEPT !.files = @ \cup {path}, !.calls = @ + 1,
                   !.downloaded_files = SetItem(@, key, path)]
    ELSE [c EXCEPT !.calls = @ + 1, !.pc = "raised",
                   !.result =
                       Some(Raised(IF outcome = "http"
                                   THEN RequestException("download_file")
                                   ELSE OSError("download_file")))]

\* Mutant of texture_filename: no simpler name for the base texture.
texture_filename_plain(i, tex_type) ==
    "textures/texture_" \o ToString(i) \o "_" \o tex_type \o ".png"

\* Lines 365-370: the path of a texture below output_dir.
texture_filename(i, tex_type) ==
    IF tex_type = "base_color"
    THEN "textures/texture_" \o ToString(i) \o ".png"
    ELSE "textures/texture_" \o ToString(i) \o "_" \o tex_type \o ".png"

\* Lines 328-346: one round of the loop over formats, or its end.
ModelStep ==
    /\ libCall.pc = "models"
    /\ LET c == libCall
           urls == c.task.model_urls
       IN  IF urls = None \/ c.k > Len(c.formats)
           THEN libCall' = [c EXCEPT !.pc = "thumbnail"]
           ELSE
             LET fmt == c.formats[c.k]
                 d == [c EXCEPT !.k = @ + 1]
             IN  IF fmt \notin DOMAIN urls[1]
                 THEN libCall' = d
                 ELSE \E o1, o2 \in DownloadOutcomes :
                        libCall' =
                          download_file(
                            IF fmt = "obj" /\ "mtl" \in DOMAIN urls[1]
                            THEN download_file(d, "model.mtl", "mtl", o1)
                            ELSE d,
                            "model." \o fmt, fmt, o2)
    /\ DownloadFrame

\* Lines 349-353.
ThumbnailStep ==
    /\ libCall.pc = "thumbnail"
    /\ LET c == [libCall EXCEPT !.pc = "textures"]
           url == libCall.task.thumbnail_url
       IN  IF url # None /\ url[1] # ""
           THEN \E o \in DownloadOutcomes :
                   libCall' = download_file(c, "thumbnail.png", "thumbnail", o)
           ELSE libCall' = c
    /\ DownloadFrame

\* Lines 355-375: one round of the loops over the texture sets and their
\* items, or the return of downloaded_files.
TextureStep ==
    /\ libCall.pc = "textures"
    /\ LET c == libCall
           sets == c.task.texture_urls
       IN  IF \/ ~c.download_textures
              \/ sets = None
              \/ c.i >= Len(sets[1])
           THEN libCall' =
                   [c EXCEPT !.pc = "returned",
                             !.result = Some(Returned(c.downloaded_files))]
           ELSE
             LET texture_set == sets[1][c.i + 1] IN
             IF c.j > Len(texture_set)
             THEN libCall' = [c EXCEPT !.i = @ + 1, !.j = 1]
             ELSE
               LET item == texture_set[c.j] IN
               \E o \in DownloadOutcomes :
                  libCall' =
                    download_file(
                      [c EXCEPT !.j = @ + 1],
                      texture_filename(c.i, item.slot),
                      "texture_" \o ToString(c.i) \o "_" \o item.slot, o)
    /\ DownloadFrame

DownloadNext == ModelStep \/ ThumbnailStep \/ TextureStep

DownloadSpec == DownloadInit /\ [][DownloadNext]_vars

\* ------------------------------------------- claims on the files downloaded
SeqRange(seq) == {seq[x] : x \in 1..Len(seq)}

\* The formats requested and present in the task's model_urls.
Downloadable(c) ==
    IF c.task.model_urls = None THEN {}
    ELSE SeqRange(c.formats) \cap DOMAIN c.task.model_urls[1]

\* The files the claim names for a call.
ExpectedFiles(c) ==
    {"model." \o f : f \in Downloadable(c)}
    \cup (IF "obj" \in Downloadable(c)
             /\ "mtl" \in DOMAIN c.task.model_urls[1]
          THEN {"model.mtl"} ELSE {})
    \cup (IF c.task.thumbnail_url \notin {None, Some("")}
          THEN {"thumbnail.png"} ELSE {})
    \cup (IF c.download_textures /\ c.task.texture_urls # None
          THEN UNION {
                 {IF c.task.texture_urls[1][n][m].slot = "base_color"
                  THEN "textures/texture_" \o ToString(n - 1) \o ".png"
                  ELSE "textures/texture_" \o ToString(n - 1) \o "_"
                          \o c.task.texture_urls[1][n][m].slot \o ".png" :
                     m \in 1..Len(c.task.texture_urls[1][n])} :
                 n \in 1..Len(c.task.texture_urls[1])}
          ELSE {})

\* C24: when download_3d_model has returned, the files downloaded are
\* model.<format> for the formats requested and present, model.mtl when obj
\* is one of them and an mtl URL is present, thumbnail.png when the
\* thumbnail URL is not empty, and, only with download_textures, one file
\* per item of each texture set, texture_<i>.png for base_color and
\* texture_<i>_<slot>.png otherwise; the dictionary returned has one entry
\* per file, each file under one key.
C24_DownloadedFiles ==
    libCall.pc = "returned" =>
        LET c == libCall
            d == c.result[1].value
        IN  /\ c.files = ExpectedFiles(c)
            /\ {d[key] : key \in DOMAIN d} = c.files
            /\ Cardinality(DOMAIN d) = Cardinality(c.files)

\* C24 witness: a call returned after it downloaded an obj model with its
\* mtl file, the thumbnail and the textures of two texture sets.
C24_Witness ==
    /\ libCall.pc = "returned"
    /\ {"model.obj", "model.mtl", "thumbnail.png", "textures/texture_0.png",
        "textures/texture_0_normal.png", "textures/texture_1_roughness.png"}
          \subseteq libCall.files
    /\ libCall.calls > Cardinality(libCall.files)

\* ======================================================================
\* generate_batch_id (file_utils.py lines 31-39), as generate_batch calls
\* it (meshy_generator.py line 315) while the clock runs.
\* ======================================================================
TicksPerSecond == 2     \* clock readings followed within a second
MaxClock == 7           \* the clock is followed for this many ticks
MaxBatchCalls == 3      \* generate_batch calls followed

\* datetime.now() at a tick of the clock.
now(clock) ==
    [second |-> clock \div TicksPerSecond,
     microsecond |-> (clock % TicksPerSecond) * (1000000 \div TicksPerSecond)]

\* strftime("%Y%m%d_%H%M%S"): the time to the second, no fraction.
strftime(dt) == ToString(dt.second)

generate_batch_id(clock) == "batch_" \o strftime(now(clock))

\* The clock and the generate_batch calls made: when each was made and the
\* batch_id its designs carry.
BatchIdInit ==
    /\ call = "generate_batch_id"
    /\ mock_mode = FALSE
    /\ wait_for_completion = TRUE
    /\ progress_callback = FALSE
    /\ timeout = None
    /\ formats = DefaultFormats
    /\ batch_size = 0
    /\ max_workers = 1
    /\ unit = [i \in Units |-> Unit(i, "absent", None)]
    /\ worker = [w \in Workers |-> 0]
    /\ mainPc = "caller"
    /\ completed_designs = <<>>
    /\ failed_designs = <<>>
    /\ retval = None
    /\ waitCall = WaitCall("none", FALSE, None)
    /\ libCall = [pc |-> "batches", clock |-> 0, batches |-> <<>>]

BatchIdFrame == UNCHANGED <<argVars, unit, worker, batchVars, waitCall>>

\* Time passes.
Tick ==
    /\ libCall.pc = "batches"
    /\ libCall.clock < MaxClock
    /\ libCall' = [libCall EXCEPT !.clock = @ + 1]
    /\ BatchIdFrame

\* A generate_batch call reaches line 315.
GenerateBatchId ==
    /\ libCall.pc = "batches"
    /\ Len(libCall.batches) < MaxBatchCalls
    /\ libCall' =
          [libCall EXCEPT
              !.batches =
                  Append(@, [called_at |-> now(libCall.clock),
                             batch_id |-> generate_batch_id(libCall.clock)])]
    /\ BatchIdFrame

BatchIdNext == Tick \/ GenerateBatchId

BatchIdSpec == BatchIdInit /\ [][BatchIdNext]_vars

\* ------------------------------------------- claims on batch ids
\* C25: any two generate_batch calls got different batch ids, whenever they
\* were made.
C25_BatchIdsUnique ==
    \A a, b \in 1..Len(libCall.batches) :
        a # b => libCall.batches[a].batch_id # libCall.batches[b].batch_id

\* ======================================================================
\* The design generate_design and generate_batch build when none is passed
\* (meshy_generator.py lines 100-120 and 321-342).
\* ======================================================================
\* The parameters passed (None: omitted) and the configuration read.
BuildParams ==
    [material : {None, Some(Member("Material", "silver"))},
     jewelry_type : {None} \cup {Some(t) : t \in JewelryType},
     chain_style : {None, Some(Member("ChainStyle", "figaro"))}]
BuildConfigs ==
    [default_material : {"gold"},
     default_jewelry_type : {t.value : t \in JewelryType},
     default_chain_style : {"cuban", "rope"}]

\* x or y, for an Optional enum member x (members are non-empty strings).
Or(x, y) == IF x # None THEN x[1] ELSE y

\* Lines 110-119, 331-339: ChainStyle(default_chain_style) if the
\* jewelry_type passed is chain, bracelet or necklace, or none was passed;
\* else None.
default_chain_style_for(jewelry_type, config) ==
    IF \/ (jewelry_type # None
             /\ jewelry_type[1].value \in {"chain", "bracelet", "necklace"})
       \/ jewelry_type = None
    THEN Some(Member("ChainStyle", config.default_chain_style))
    ELSE None

\* JewelryDesign(material=..., jewelry_type=..., chain_style=...,
\* [batch_id=...]) as both methods call it.
build_design(params, config, batch_id) ==
    [NewJewelryDesign(
        [name |-> <<>>,
         jewelry_type |->
             Or(params.jewelry_type,
                Member("JewelryType", config.default_jewelry_type)),
         material |->
             Or(params.material,
                Member("Material", config.default_material)),
         chain_style |->
             IF params.chain_style # None THEN params.chain_style
             ELSE default_chain_style_for(params.jewelry_type, config),
         created_at |-> CHOOSE dt \in Datetimes : dt.microsecond = 0,
         generated |-> FALSE])
     EXCEPT !.batch_id = batch_id]

BuildInit ==
    /\ call = "build_design"
    /\ mock_mode = FALSE
    /\ wait_for_completion = TRUE
    /\ progress_callback = FALSE
    /\ timeout = None
    /\ formats = DefaultFormats
    /\ batch_size = 0
    /\ max_workers = 1
    /\ unit = [i \in Units |-> Unit(i, "absent", None)]
    /\ worker = [w \in Workers |-> 0]
    /\ mainPc = "caller"
    /\ completed_designs = <<>>
    /\ failed_designs = <<>>
    /\ retval = None
    /\ waitCall = WaitCall("none", FALSE, None)
    /\ \E params \in BuildParams, config \in BuildConfigs :
          libCall = [pc |-> "build", params |-> params, config |-> config,
                     design |-> None]

BuildFrame == UNCHANGED <<argVars, unit, worker, batchVars, waitCall>>

\* generate_design without design (lines 100-120).
BuildInGenerateDesign ==
    /\ libCall.pc = "build"
    /\ libCall' =
          [libCall EXCEPT
              !.pc = "generate_design",
              !.design = Some(build_design(libCall.params, libCall.config,
                                           None))]
    /\ BuildFrame

\* generate_batch (lines 321-342).
BuildInGenerateBatch ==
    /\ libCall.pc = "build"
    /\ libCall' =
          [libCall EXCEPT
              !.pc = "generate_batch",
              !.design = Some(build_design(libCall.params, libCall.config,
                                           Some("batch_id")))]
    /\ BuildFrame

BuildNext == BuildInGenerateDesign \/ BuildInGenerateBatch

BuildSpec == BuildInit /\ [][BuildNext]_vars

\* ------------------------------------------- claims on the design built
\* C30: a design built with no chain style passed has the configured
\* default chain style when its jewelry type is chain, bracelet or necklace
\* and no chain style when its type is ring, earring or pendant, whether
\* the type was passed or taken from the configuration.
C30_ChainStyleByResultingType ==
    (libCall.pc # "build" /\ libCall.params.chain_style = None) =>
        LET d == libCall.design[1] IN
        d.chain_style =
            IF d.jewelry_type.value \in {"chain", "bracelet", "necklace"}
            THEN Some(Member("ChainStyle",
                             libCall.config.default_chain_style))
            ELSE None

====
